---- MODULE Spec2Model ----
(***************************************************************************)
(* Image-trace analysis engine: the two analysis pipelines                 *)
(*   - "clean":   StartAnalysisUseCase.execute                             *)
(*                (backend/core/application/use_cases/start_analysis.py)   *)
(*   - "unified": start_analysis + _run_analysis_task                      *)
(*                (backend/app/routers_analysis.py)                        *)
(* and the Redis feature cache ImageFeatureCache                           *)
(*                (backend/app/feature_cache.py).                          *)
(*                                                                         *)
(* Abstractions.  An image is a record [id, corrupt, downloadable,         *)
(* cached]; ids are the positions of the images in the project, so         *)
(* "project order" is the order of ids.                                    *)
(* A fast feature (avg_color + ahash) is represented by                    *)
(* the id of the image it was computed from (0 = the empty vectors []),    *)
(* so that the alignment of matrix rows with image ids can be checked.     *)
(* A progress value is the rational <<num, den>>.                          *)
(***************************************************************************)
EXTENDS Integers, Sequences, FiniteSets, TLC

\* ---------------------------------------------------------------- bounds
MaxImages == 3
MaxFail == 7
MaxCacheIds == 2
MaxLossFaults == 1
ColourDen == 7
MaxHashBits == 2
MaxRuns == 2
MaxRunImages == 1
MaxCacheOps == 2
MaxOrbImages == 3
MaxPerDistance == 8
MaxGoodMatches == 5

\* ------------------------------------------------------ program constants
max_retries == 3
Scale == 65535
ColourChannels == 3
edgeThreshold == 31
min_size_for_multiscale == 100
Kinds == {"fast", "orb"}

ImageIds == 1..MaxImages
CacheIds == 1..MaxCacheIds

VARIABLES
    entry,          \* which entry point runs: "clean" | "unified" | "cache"
    wiring,         \* clean pipeline: "memory" (tests) | "sqlmodel" (production DI)
    projectExists,  \* ProjectRepository.exists(project_id)
    imgs,           \* the project's image rows, in project order
    pc,             \* position of the run
    row,            \* the persisted analysis record
    result,         \* the AnalysisResult entity held by execute
    features,       \* execute: features obtained so far (sources)
    errors,         \* execute: error list (ids of the failing images)
    idx,            \* execute: loop index (0-based, number of images done)
    writes,         \* every persisted write of the record: [status, progress]
    image_ids,      \* _run_analysis_task: ids of the downloaded images
    fast_features,  \* _run_analysis_task: result of _batch_compute_fast_features
    featStore,      \* Redis: feature keys  img_features:<kind>:<id>
    metaStore,      \* Redis: metadata keys img_meta:<id> (feature_types)
    failNext,       \* number of upcoming Redis commands that hit a connection error
    cacheFaults,    \* cache operations of the run that failed (connection / decode)
    lastOp,         \* direct cache API: the last call and its outcome
    screenshot_mode,\* execute: req.screenshot_mode of the current run
    computeCalls,   \* execute: every call of extractor.compute so far
    runs,           \* execute: number of runs started on the shared cache
    async_redis_client, \* feature_cache: event loop its client is bound to
    threads         \* _run_analysis_task_wrapper: the analysis threads

vars == <<entry, wiring, projectExists, imgs, pc, row, result, features, errors,
          idx, writes, image_ids, fast_features, featStore, metaStore, failNext,
          cacheFaults, lastOp, screenshot_mode, computeCalls, runs,
          async_redis_client, threads>>

\* ------------------------------------------------------------- data model
Zero == <<0, 1>>
One == <<1, 1>>
InitialProgress == <<1, 20>>
Leq(a, b) == a[1] * b[2] <= b[1] * a[2]

\* A cached fast feature: its serialisation format, the image it was computed
\* from, and its screenshot_mode entry (absent in the dicts ImageFeatureCache
\* stores, read with the default False).
NoPayload == [fmt |-> "none", src |-> 0, screenshot_mode |-> FALSE]
Payload(f, s) == [fmt |-> f, src |-> s, screenshot_mode |-> FALSE]

NoSimilarity == [present |-> FALSE, image_ids |-> <<>>, rows |-> <<>>]

AnalysisResult ==
    [status |-> "pending", progress |-> Zero, error_message |-> "",
     errors |-> <<>>, similarity |-> NoSimilarity]

NoRow ==
    [exists |-> FALSE, status |-> "", progress |-> Zero, error_message |-> "",
     errors |-> <<>>, similarity |-> NoSimilarity]

\* No analysis thread has been started.
NoThreads == <<>>

NoOp ==
    [op |-> "none", id |-> 0, kind |-> "", ok |-> FALSE, value |-> 0,
     attempts |-> 0, failAtCall |-> 0, stored |-> NoPayload]

EmptyFeatStore == [k \in ImageIds \X Kinds |-> NoPayload]
EmptyMetaStore == [i \in ImageIds |-> {}]

Ids(s) == [k \in 1..Len(s) |-> s[k].id]

Range(s) == {s[k] : k \in 1..Len(s)}

\* ------------------------------------------------- analysis repositories
\* InMemoryAnalysisRepository.save keeps the entity itself.
InMemorySave(res) ==
    [exists |-> TRUE, status |-> res.status, progress |-> res.progress,
     error_message |-> res.error_message, errors |-> res.errors,
     similarity |-> res.similarity]

\* SqlModelAnalysisRepository.save writes _to_model_payload(result): the
\* errors list is not a column of the model.
to_model_payload(res) ==
    [exists |-> TRUE, status |-> res.status, progress |-> res.progress,
     error_message |-> res.error_message, errors |-> <<>>,
     similarity |-> res.similarity]

save(res) == IF wiring = "memory" THEN InMemorySave(res) ELSE to_model_payload(res)

\* update_status on the stored record (both repositories: status and progress;
\* the error argument is never passed by execute).
update_status(r, status, progress) ==
    IF r.exists THEN [r EXCEPT !.status = status, !.progress = progress] ELSE r

\* InMemoryAnalysisRepository stores the entity object itself, so update_status
\* mutates the entity execute holds; the SQLModel repository updates the row only.
EntityAfterUpdate(res, status, progress) ==
    IF wiring = "memory"
    THEN [res EXCEPT !.status = status, !.progress = progress]
    ELSE res

Logged(w, r) == Append(w, [status |-> r.status, progress |-> r.progress])

\* ------------------------------------------- FeatureCache (clean pipeline)
\* The format a FeatureCache implementation stores and can read back:
\* InMemoryFeatureCache keeps the dict, RedisFeatureCache stores JSON text.
OwnFormat == IF wiring = "memory" THEN "dict" ELSE "json"

\* A mutation of get_fast: every lookup is a miss.
get_fast_always_miss(fs, id, readFails) == NoPayload

\* get_fast: None on a miss; RedisFeatureCache also returns None when the
\* client raises or the payload is not JSON (except Exception: return None).
get_fast(fs, id, readFails) ==
    IF readFails \/ fs[<<id, "fast">>].fmt # OwnFormat
    THEN NoPayload
    ELSE fs[<<id, "fast">>]

\* A mutation of to_fast_dict: the screenshot_mode entry is left at its default.
to_fast_dict_without_mode(src, mode) == Payload(OwnFormat, src)

\* FeatureVector.to_fast_dict of the feature compute returned for image src
\* under screenshot_mode mode, in the form the cache of this wiring stores.
to_fast_dict(src, mode) ==
    [Payload(OwnFormat, src) EXCEPT !.screenshot_mode = mode]

\* set_fast: RedisFeatureCache swallows a failing write.
set_fast(fs, id, data, writeFails) ==
    IF writeFails THEN fs
    ELSE [fs EXCEPT ![<<id, "fast">>] = data]

\* SimpleSimilarity.compute: n = len(features) rows, labelled with ids.
SimilarityCompute(ids, feats) ==
    [present |-> TRUE, image_ids |-> ids, rows |-> feats]

\* ---------------------------------------------- StartAnalysisUseCase.execute
\* A mutation of ProjectRepository.exists: every project id is found.
projects_exists_always(known) == TRUE

\* ProjectRepository.exists(project_id): whether the id is among the projects.
projects_exists(known) == known

\* The status code of the clean route for the way execute ended: the dict of
\* a returned result, 404 for ValueError("project_not_found"), and any other
\* exception re-raised.
clean_route_status(ended) ==
    IF ended = "done" THEN 200
    ELSE IF ended = "project_not_found" THEN 404
    ELSE 500

UCStart ==
    /\ entry = "clean" /\ pc = "idle"
    /\ IF ~projects_exists(projectExists)
       THEN /\ pc' = "project_not_found"
            /\ UNCHANGED <<row, result, writes>>
       ELSE LET res == [AnalysisResult EXCEPT !.status = "processing",
                                              !.progress = InitialProgress]
            IN /\ result' = res
               /\ row' = save(res)
               /\ writes' = Logged(writes, save(res))
               /\ pc' = "list"
    /\ UNCHANGED <<async_redis_client, threads, entry, wiring, projectExists, screenshot_mode, computeCalls,
                   runs, imgs, features, errors, idx,
                   image_ids, fast_features, featStore, metaStore, failNext,
                   cacheFaults, lastOp>>

UCListImages ==
    /\ entry = "clean" /\ pc = "list"
    /\ IF Len(imgs) = 0
       THEN LET res == [result EXCEPT !.status = "completed", !.progress = One]
            IN /\ result' = res
               /\ row' = save(res)
               /\ writes' = Logged(writes, save(res))
               /\ pc' = "done"
       ELSE /\ pc' = "loop"
            /\ UNCHANGED <<row, result, writes>>
    /\ UNCHANGED <<async_redis_client, threads, entry, wiring, projectExists, screenshot_mode, computeCalls,
                   runs, imgs, features, errors, idx,
                   image_ids, fast_features, featStore, metaStore, failNext,
                   cacheFaults, lastOp>>

\* One iteration of the for loop (lines 57-69).
UCLoopStep(readFails, writeFails) ==
    /\ entry = "clean" /\ pc = "loop"
    /\ wiring = "memory" => (~readFails /\ ~writeFails)
    /\ LET img == imgs[idx + 1]
           cached == get_fast(featStore, img.id, readFails)
           hit == cached.fmt # "none"
           raises == ~hit /\ img.corrupt
           progress == <<idx + 1, Len(imgs) + 1>>
           newRow == update_status(row, "processing", progress)
       IN /\ features' = IF raises THEN features
                         ELSE Append(features, IF hit THEN cached.src ELSE img.id)
          /\ errors' = IF raises THEN Append(errors, img.id) ELSE errors
          /\ featStore' = IF hit \/ raises THEN featStore
                          ELSE set_fast(featStore, img.id,
                                        to_fast_dict(img.id, screenshot_mode), writeFails)
          /\ computeCalls' =
                IF hit THEN computeCalls
                ELSE Append(computeCalls,
                            [run |-> runs, id |-> img.id,
                             held |-> featStore[<<img.id, "fast">>].fmt # "none",
                             readable |-> featStore[<<img.id, "fast">>].fmt = OwnFormat,
                             readFails |-> readFails,
                             stored |-> ~raises /\ ~writeFails])
          /\ cacheFaults' = cacheFaults
                            + (IF readFails THEN 1 ELSE 0)
                            + (IF ~hit /\ ~raises /\ writeFails THEN 1 ELSE 0)
          /\ row' = newRow
          /\ result' = EntityAfterUpdate(result, "processing", progress)
          /\ writes' = Logged(writes, newRow)
          /\ idx' = idx + 1
          /\ pc' = IF idx + 1 = Len(imgs) THEN "finish" ELSE "loop"
    /\ UNCHANGED <<async_redis_client, threads, entry, wiring, projectExists, screenshot_mode, runs, imgs, image_ids, fast_features,
                   metaStore, failNext, lastOp>>

\* Lines 71-86: no features -> failed, else matrix and completed.
UCFinish ==
    /\ entry = "clean" /\ pc = "finish"
    /\ LET res ==
             IF features = <<>>
             THEN [result EXCEPT !.status = "failed",
                                 !.error_message = "no_features_generated",
                                 !.errors = errors]
             ELSE [result EXCEPT
                     !.similarity =
                         SimilarityCompute(Ids(SubSeq(imgs, 1, Len(features))), features),
                     !.status = "completed",
                     !.progress = One,
                     !.errors = errors]
       IN /\ result' = res
          /\ row' = save(res)
          /\ writes' = Logged(writes, save(res))
    /\ pc' = "done"
    /\ UNCHANGED <<async_redis_client, threads, entry, wiring, projectExists, screenshot_mode, computeCalls,
                   runs, imgs, features, errors, idx,
                   image_ids, fast_features, featStore, metaStore, failNext,
                   cacheFaults, lastOp>>

\* A repository call of execute that is outside every try block raises
\* (list_by_project, update_status, save: a database error of the SQLModel
\* repositories).  execute has no handler: the exception reaches the caller.
UCUnexpectedError ==
    /\ entry = "clean" /\ wiring = "sqlmodel"
    /\ pc \in {"list", "loop", "finish"}
    /\ pc' = "raised"
    /\ UNCHANGED <<async_redis_client, threads, entry, wiring, projectExists, screenshot_mode, computeCalls,
                   runs, imgs, row, result, features,
                   errors, idx, writes, image_ids, fast_features, featStore,
                   metaStore, failNext, cacheFaults, lastOp>>

UCNext ==
    \/ UCStart
    \/ UCListImages
    \/ \E rf \in BOOLEAN, wf \in BOOLEAN : UCLoopStep(rf, wf)
    \/ UCFinish
    \/ UCUnexpectedError

\* ------------------------------------------------ ImageFeatureCache (Redis)
\* The cache state threaded through a sequence of cache calls.
CacheState(fs, ms, fail, faults) ==
    [fs |-> fs, ms |-> ms, fail |-> fail, faults |-> faults]

\* _force_reconnect: drops the client, creates a new one and pings it; a
\* failing ping is only logged.
force_reconnect(fail) == IF fail > 0 THEN fail - 1 ELSE 0

\* The except branch shared by the cache operations: the command that failed
\* used up one connection error, then _force_reconnect runs.
AfterConnectionError(st) ==
    [st EXCEPT !.fail = force_reconnect(st.fail - 1), !.faults = st.faults + 1]

\* get_image_features(image_id, feature_type): one GET, then the payload is
\* unpickled.  Only RedisError/ConnectionError/OSError are caught: they give
\* None without a second attempt; an unpickling error propagates.
get_image_features(st, id, kind) ==
    LET data == st.fs[<<id, kind>>]
    IN IF st.fail > 0
       THEN [raised |-> FALSE, src |-> 0, attempts |-> 1, st |-> AfterConnectionError(st)]
       ELSE IF data.fmt = "none"
       THEN [raised |-> FALSE, src |-> 0, attempts |-> 1, st |-> st]
       ELSE IF data.fmt # "pickle"
       THEN [raised |-> TRUE, src |-> 0, attempts |-> 1,
             st |-> [st EXCEPT !.faults = st.faults + 1]]
       ELSE [raised |-> FALSE, src |-> data.src, attempts |-> 1, st |-> st]

\* cache_image_features(image_id, features): features["fast"] is read before
\* anything is written (KeyError when absent); one pipeline writes a feature
\* key per kind and the metadata key, whose feature_types are the kinds of
\* this call.  A connection error gives False without a second attempt.
cache_image_features(st, id, kinds, src) ==
    IF "fast" \notin kinds
    THEN [raised |-> TRUE, ok |-> FALSE, attempts |-> 1, st |-> st]
    ELSE IF st.fail > 0
    THEN [raised |-> FALSE, ok |-> FALSE, attempts |-> 1, st |-> AfterConnectionError(st)]
    ELSE [raised |-> FALSE, ok |-> TRUE, attempts |-> 1,
          st |-> [st EXCEPT
                    !.fs = [k \in ImageIds \X Kinds |->
                               IF k[1] = id /\ k[2] \in kinds
                               THEN Payload("pickle", src) ELSE st.fs[k]],
                    !.ms = [st.ms EXCEPT ![id] = kinds]]]

\* batch_get_features(image_ids): metadata keys first, then the feature keys
\* the metadata names; a connection error returns what was gathered so far
\* (nothing: the batch size is 100), an unpickling error propagates.
batch_get_features(st, ids) ==
    LET none == [i \in ImageIds |-> 0]
        bad == \E k \in 1..Len(ids) : \E t \in st.ms[ids[k]] :
                   st.fs[<<ids[k], t>>].fmt \notin {"none", "pickle"}
    IN IF st.fail > 0
       THEN [raised |-> FALSE, found |-> none, st |-> AfterConnectionError(st)]
       ELSE IF bad
       THEN [raised |-> TRUE, found |-> none,
             st |-> [st EXCEPT !.faults = st.faults + 1]]
       ELSE [raised |-> FALSE,
             found |-> [i \in ImageIds |->
                          IF (\E k \in 1..Len(ids) : ids[k] = i)
                             /\ "fast" \in st.ms[i]
                             /\ st.fs[<<i, "fast">>].fmt = "pickle"
                          THEN st.fs[<<i, "fast">>].src ELSE 0],
             st |-> st]

\* _execute_redis_operation: up to max_retries + 1 attempts, reconnecting
\* between attempts.  Only ping goes through it.
RECURSIVE execute_redis_operation(_, _)
execute_redis_operation(fail, attempt) ==
    IF fail = 0
    THEN [ok |-> TRUE, attempts |-> attempt + 1, fail |-> 0]
    ELSE IF attempt < max_retries
    THEN execute_redis_operation(force_reconnect(fail - 1), attempt + 1)
    ELSE [ok |-> FALSE, attempts |-> attempt + 1, fail |-> fail - 1]

ping(fail) == execute_redis_operation(fail, 0)

\* ------------------------------------------- fast features (unified pipeline)
\* _compute_fast_features_cached: cache lookup, else compute (PIL raises on a
\* corrupt file) and cache the result, ignoring a failed write.
compute_fast_features_cached(st, img) ==
    LET g == get_image_features(st, img.id, "fast")
    IN IF g.raised THEN [raised |-> TRUE, src |-> 0, st |-> g.st]
       ELSE IF g.src # 0 THEN [raised |-> FALSE, src |-> g.src, st |-> g.st]
       ELSE IF img.corrupt THEN [raised |-> TRUE, src |-> 0, st |-> g.st]
       ELSE [raised |-> FALSE, src |-> img.id,
             st |-> cache_image_features(g.st, img.id, {"fast"}, img.id).st]

\* asyncio.gather over the uncached images, taken in list order; the first
\* exception is the one the caller sees.
RECURSIVE ComputeAll(_, _, _)
ComputeAll(st, todo, acc) ==
    IF todo = <<>> THEN [raised |-> FALSE, vals |-> acc, st |-> st]
    ELSE LET r == compute_fast_features_cached(st, Head(todo))
         IN IF r.raised THEN [raised |-> TRUE, vals |-> acc, st |-> r.st]
            ELSE ComputeAll(r.st, Tail(todo), Append(acc, r.src))

Empties(n) == [k \in 1..n |-> 0]

\* Lines 428-435: each computed result is written at its index of image_ids,
\* after extending the list with [] up to that index.
RECURSIVE Place(_, _, _)
Place(avg, idxs, vals) ==
    IF idxs = <<>> THEN avg
    ELSE LET i == Head(idxs)
             ext == IF Len(avg) <= i THEN avg \o Empties(i + 1 - Len(avg)) ELSE avg
         IN Place([ext EXCEPT ![i + 1] = Head(vals)], Tail(idxs), Tail(vals))

\* Lines 438-440.
Pad(avg, n) == IF Len(avg) < n THEN avg \o Empties(n - Len(avg)) ELSE avg

\* _batch_compute_fast_features(image_ids, image_paths); dl are the downloaded
\* images, position k holding image_ids[k] and image_paths[k].
batch_compute_fast_features(st, dl) ==
    LET b == batch_get_features(st, Ids(dl))
        positions == [k \in 1..Len(dl) |-> k]
        hit(k) == b.found[dl[k].id] # 0
        cachedPos == SelectSeq(positions, LAMBDA k : hit(k))
        computePos == SelectSeq(positions, LAMBDA k : ~hit(k))
        cachedVals == [j \in 1..Len(cachedPos) |-> b.found[dl[cachedPos[j]].id]]
        compute_indices == [j \in 1..Len(computePos) |-> computePos[j] - 1]
        todo == [j \in 1..Len(computePos) |-> dl[computePos[j]]]
        c == ComputeAll(b.st, todo, <<>>)
    IN IF b.raised THEN [raised |-> TRUE, feats |-> <<>>, st |-> b.st]
       ELSE IF c.raised THEN [raised |-> TRUE, feats |-> <<>>, st |-> c.st]
       ELSE [raised |-> FALSE,
             feats |-> Pad(Place(cachedVals, compute_indices, c.vals), Len(dl)),
             st |-> c.st]

\* _cosine_similarity_matrix / _ahash_similarity_matrix on the feature lists:
\* np.array(..., dtype=float32) raises on rows of different length, and the
\* hash matrix divides by a bit length of 0 when every row is [].
FastSimilarityRaises(feats) ==
    \/ \E i, j \in 1..Len(feats) : (feats[i] = 0) # (feats[j] = 0)
    \/ Len(feats) >= 2 /\ \A i \in 1..Len(feats) : feats[i] = 0

\* ----------------------------------- start_analysis and _run_analysis_task
Downloaded == SelectSeq(imgs, LAMBDA im : im.downloadable)

NoImagesMessage ==
    "Unified analysis failed: No actual image files found for project"
DownloadFailedMessage ==
    "Unified analysis failed: Failed to download any images from MinIO"
FeatureFailedMessage == "Unified analysis failed: fast feature computation"

\* The except branch of _run_analysis_task (lines 1057-1071).
MarkFailed(r, msg) ==
    IF r.exists
    THEN [r EXCEPT !.status = "failed", !.error_message = msg, !.progress = One]
    ELSE r

\* POST /analysis/start: 400 when the project has no image, else a pending
\* record and a queued background task.
start_analysis ==
    /\ entry = "unified" /\ pc = "idle"
    /\ IF Len(imgs) = 0
       THEN /\ pc' = "rejected"
            /\ UNCHANGED <<row, writes>>
       ELSE LET r == [NoRow EXCEPT !.exists = TRUE, !.status = "pending",
                                   !.progress = Zero]
            IN /\ row' = r
               /\ writes' = Logged(writes, r)
               /\ pc' = "queued"
    /\ UNCHANGED <<async_redis_client, threads, entry, wiring, projectExists, screenshot_mode, computeCalls,
                   runs, imgs, result, features, errors,
                   idx, image_ids, fast_features, featStore, metaStore, failNext,
                   cacheFaults, lastOp>>

\* The project's images are deleted (delete_document removes the Image rows
\* extracted from a document) while the task is queued.
ProjectImagesDeleted ==
    /\ entry = "unified" /\ pc = "queued"
    /\ imgs # <<>>
    /\ imgs' = <<>>
    /\ UNCHANGED <<async_redis_client, threads, entry, wiring, projectExists, screenshot_mode, computeCalls,
                   runs, pc, row, result, features,
                   errors, idx, writes, image_ids, fast_features, featStore,
                   metaStore, failNext, cacheFaults, lastOp>>

\* Lines 886-950: reconnect, load the record and the images, download each
\* image (a failing download is skipped); no download at all raises.
TaskAcquire ==
    /\ entry = "unified" /\ pc = "queued"
    /\ image_ids' = Ids(Downloaded)
    /\ IF Downloaded = <<>>
       THEN LET r == MarkFailed(row, IF imgs = <<>> THEN NoImagesMessage
                                     ELSE DownloadFailedMessage)
            IN /\ row' = r
               /\ writes' = Logged(writes, r)
               /\ failNext' = force_reconnect(force_reconnect(failNext))
               /\ pc' = "done"
       ELSE /\ failNext' = force_reconnect(failNext)
            /\ pc' = "health"
            /\ UNCHANGED <<row, writes>>
    /\ UNCHANGED <<async_redis_client, threads, entry, wiring, projectExists, screenshot_mode, computeCalls,
                   runs, imgs, result, features, errors,
                   idx, fast_features, featStore, metaStore, cacheFaults, lastOp>>

\* Lines 952-981: health checks (ping, with retries), status running, then
\* progress 0.1; each is committed.
TaskMarkRunning ==
    /\ entry = "unified" /\ pc = "health"
    /\ failNext' = ping(failNext).fail
    /\ LET r1 == [row EXCEPT !.status = "running"]
           r2 == [r1 EXCEPT !.progress = <<1, 10>>]
       IN /\ row' = r2
          /\ writes' = Logged(Logged(writes, r1), r2)
    /\ pc' = "fast"
    /\ UNCHANGED <<async_redis_client, threads, entry, wiring, projectExists, screenshot_mode, computeCalls,
                   runs, imgs, result, features, errors,
                   idx, image_ids, fast_features, featStore, metaStore,
                   cacheFaults, lastOp>>

\* Lines 983-997: phase 1; an exception reaches the except branch.
TaskFastPhase ==
    /\ entry = "unified" /\ pc = "fast"
    /\ LET b == batch_compute_fast_features(
                    CacheState(featStore, metaStore, failNext, cacheFaults), Downloaded)
           failed == b.raised \/ FastSimilarityRaises(b.feats)
           r == IF failed THEN MarkFailed(row, FeatureFailedMessage)
                ELSE [row EXCEPT !.progress = <<2, 5>>]
       IN /\ featStore' = b.st.fs
          /\ metaStore' = b.st.ms
          /\ cacheFaults' = b.st.faults
          /\ failNext' = IF failed THEN force_reconnect(b.st.fail) ELSE b.st.fail
          /\ fast_features' = IF failed THEN <<>> ELSE b.feats
          /\ row' = r
          /\ writes' = Logged(writes, r)
          /\ pc' = IF failed THEN "done" ELSE "orb"
    /\ UNCHANGED <<async_redis_client, threads, entry, wiring, projectExists, screenshot_mode, computeCalls,
                   runs, imgs, result, features, errors,
                   idx, image_ids, lastOp>>

\* Lines 999-1004: phase 2, _orb_pairwise_analysis (unreadable images get no
\* descriptors and score 0.0), then progress 0.7.
TaskOrbPhase ==
    /\ entry = "unified" /\ pc = "orb"
    /\ row' = [row EXCEPT !.progress = <<7, 10>>]
    /\ writes' = Logged(writes, row')
    /\ pc' = "fuse"
    /\ UNCHANGED <<async_redis_client, threads, entry, wiring, projectExists, screenshot_mode, computeCalls,
                   runs, imgs, result, features, errors,
                   idx, image_ids, fast_features, featStore, metaStore, failNext,
                   cacheFaults, lastOp>>

\* Lines 1006-1053: fusion, results, completed; the finally block reconnects.
TaskComplete ==
    /\ entry = "unified" /\ pc = "fuse"
    /\ row' = [row EXCEPT !.similarity = SimilarityCompute(image_ids, fast_features),
                          !.status = "completed",
                          !.progress = One]
    /\ writes' = Logged(writes, row')
    /\ failNext' = force_reconnect(failNext)
    /\ pc' = "done"
    /\ UNCHANGED <<async_redis_client, threads, entry, wiring, projectExists, screenshot_mode, computeCalls,
                   runs, imgs, result, features, errors,
                   idx, image_ids, fast_features, featStore, metaStore,
                   cacheFaults, lastOp>>

\* A commit of the task raises while the database is unavailable: the except
\* branch's own update fails too and is only printed (lines 1072-1073).
TaskDbFailure ==
    /\ entry = "unified" /\ pc \in {"health", "fast", "orb", "fuse"}
    /\ failNext' = force_reconnect(failNext)
    /\ pc' = "handler_failed"
    /\ UNCHANGED <<async_redis_client, threads, entry, wiring, projectExists, screenshot_mode, computeCalls,
                   runs, imgs, row, result, features,
                   errors, idx, writes, image_ids, fast_features, featStore,
                   metaStore, cacheFaults, lastOp>>

TaskNext ==
    \/ start_analysis
    \/ ProjectImagesDeleted
    \/ TaskAcquire
    \/ TaskMarkRunning
    \/ TaskFastPhase
    \/ TaskOrbPhase
    \/ TaskComplete
    \/ TaskDbFailure

\* ------------------------------------------- direct calls of the cache API
\* (the cache endpoints of the router and any other caller of feature_cache)
CacheNow == CacheState(featStore, metaStore, failNext, cacheFaults)

CacheUnchangedRun ==
    UNCHANGED <<async_redis_client, threads, entry, wiring, projectExists, screenshot_mode, computeCalls,
                   runs, imgs, pc, row, result, features,
                errors, idx, writes, image_ids, fast_features>>

CacheGet(id, kind) ==
    /\ entry = "cache"
    /\ LET g == get_image_features(CacheNow, id, kind)
       IN /\ lastOp' = [op |-> IF g.raised THEN "get_raised" ELSE "get",
                        id |-> id, kind |-> kind,
                        ok |-> ~g.raised /\ g.src # 0, value |-> g.src,
                        attempts |-> g.attempts, failAtCall |-> failNext,
                        stored |-> featStore[<<id, kind>>]]
          /\ featStore' = g.st.fs
          /\ metaStore' = g.st.ms
          /\ failNext' = g.st.fail
          /\ cacheFaults' = g.st.faults
    /\ CacheUnchangedRun

CacheSet(id, kinds) ==
    /\ entry = "cache"
    /\ LET c == cache_image_features(CacheNow, id, kinds, id)
       IN /\ lastOp' = [op |-> IF c.raised THEN "set_raised" ELSE "set",
                        id |-> id, kind |-> "fast",
                        ok |-> c.ok, value |-> id,
                        attempts |-> c.attempts, failAtCall |-> failNext,
                        stored |-> featStore[<<id, "fast">>]]
          /\ featStore' = c.st.fs
          /\ metaStore' = c.st.ms
          /\ failNext' = c.st.fail
          /\ cacheFaults' = c.st.faults
    /\ CacheUnchangedRun

\* invalidate_image_cache: reads the metadata key, deletes the feature keys
\* it names and the metadata key; a connection error drops the client and
\* returns False.
CacheInvalidate(id) ==
    /\ entry = "cache"
    /\ IF failNext > 0
       THEN /\ failNext' = failNext - 1
            /\ cacheFaults' = cacheFaults + 1
            /\ UNCHANGED <<featStore, metaStore>>
       ELSE /\ featStore' = [k \in ImageIds \X Kinds |->
                               IF k[1] = id /\ k[2] \in metaStore[id]
                               THEN NoPayload ELSE featStore[k]]
            /\ metaStore' = [metaStore EXCEPT ![id] = {}]
            /\ UNCHANGED <<failNext, cacheFaults>>
    /\ lastOp' = [op |-> "invalidate", id |-> id, kind |-> "",
                  ok |-> failNext = 0, value |-> 0, attempts |-> 1,
                  failAtCall |-> failNext, stored |-> featStore[<<id, "fast">>]]
    /\ CacheUnchangedRun

CachePing ==
    /\ entry = "cache"
    /\ LET p == ping(failNext)
       IN /\ lastOp' = [op |-> "ping", id |-> 0, kind |-> "", ok |-> p.ok,
                        value |-> 0, attempts |-> p.attempts,
                        failAtCall |-> failNext, stored |-> NoPayload]
          /\ failNext' = p.fail
    /\ UNCHANGED <<featStore, metaStore, cacheFaults>>
    /\ CacheUnchangedRun

\* The connection to Redis is lost for the next n commands (the number of
\* such episodes is bounded through the faults they cause).
ConnectionLoss(n) ==
    /\ entry = "cache"
    /\ failNext = 0
    /\ cacheFaults < MaxLossFaults
    /\ failNext' = n
    /\ UNCHANGED <<featStore, metaStore, cacheFaults, lastOp>>
    /\ CacheUnchangedRun

CacheNext ==
    \/ \E id \in CacheIds, kind \in Kinds : CacheGet(id, kind)
    \/ \E id \in CacheIds, kinds \in (SUBSET Kinds) \ {{}} : CacheSet(id, kinds)
    \/ \E id \in CacheIds : CacheInvalidate(id)
    \/ CachePing
    \/ \E n \in 1..MaxFail : ConnectionLoss(n)

\* ------------------------------------------------------------------- Init
\* What the cache holds for an image when the run starts, left by earlier
\* runs.  Both cache classes use the key img_features:fast:<id> of the same
\* Redis database: RedisFeatureCache (clean pipeline) stores JSON text,
\* ImageFeatureCache (unified pipeline) a pickle plus the metadata key.
\*   "none"     nothing
\*   "dict"     InMemoryFeatureCache entry
\*   "json"     written by RedisFeatureCache
\*   "pickle"   written by ImageFeatureCache (with metadata)
\*   "jsonmeta" written by ImageFeatureCache, then overwritten by RedisFeatureCache
CachedKinds(e, w) ==
    IF e = "unified" THEN {"none", "pickle", "json", "jsonmeta"}
    ELSE IF w = "memory" THEN {"none", "dict"}
    ELSE {"none", "json", "pickle"}

ImageLists(e, w) ==
    UNION {[1..n -> [corrupt : BOOLEAN,
                     downloadable : IF e = "unified" THEN BOOLEAN ELSE {TRUE},
                     cached : CachedKinds(e, w)]] : n \in 0..MaxImages}

WithIds(s) ==
    [k \in 1..Len(s) |->
        [id |-> k, corrupt |-> s[k].corrupt, downloadable |-> s[k].downloadable,
         cached |-> s[k].cached]]

FormatOf(c) == IF c = "jsonmeta" THEN "json" ELSE c

StoreOf(s) ==
    [k \in ImageIds \X Kinds |->
        IF k[2] = "fast" /\ k[1] <= Len(s) /\ s[k[1]].cached # "none"
        THEN Payload(FormatOf(s[k[1]].cached), k[1])
        ELSE NoPayload]

MetaOf(s) ==
    [i \in ImageIds |->
        IF i <= Len(s) /\ s[i].cached \in {"pickle", "jsonmeta"} THEN {"fast"} ELSE {}]

InitCommon ==
    /\ pc = "idle"
    /\ row = NoRow
    /\ result = AnalysisResult
    /\ features = <<>>
    /\ errors = <<>>
    /\ idx = 0
    /\ writes = <<>>
    /\ image_ids = <<>>
    /\ fast_features = <<>>
    /\ cacheFaults = 0
    /\ lastOp = NoOp
    /\ computeCalls = <<>>
    /\ runs = 1
    /\ async_redis_client = 0
    /\ threads = NoThreads

InitClean ==
    /\ entry = "clean"
    /\ wiring \in {"memory", "sqlmodel"}
    /\ projectExists \in BOOLEAN
    /\ screenshot_mode \in BOOLEAN
    /\ imgs \in {WithIds(s) : s \in ImageLists("clean", wiring)}
    /\ featStore = StoreOf(imgs)
    /\ metaStore = MetaOf(imgs)
    /\ failNext = 0
    /\ InitCommon

InitUnified ==
    /\ entry = "unified"
    /\ wiring = "sqlmodel"
    /\ projectExists = TRUE
    /\ screenshot_mode = FALSE
    /\ imgs \in {WithIds(s) : s \in ImageLists("unified", wiring)}
    /\ featStore = StoreOf(imgs)
    /\ metaStore = MetaOf(imgs)
    /\ failNext \in 0..MaxFail
    /\ InitCommon

Init == InitClean \/ InitUnified

Next == UCNext \/ TaskNext

Spec == Init /\ [][Next]_vars

\* The cache on its own: any sequence of calls of its API.
InitCache ==
    /\ entry = "cache"
    /\ wiring = "sqlmodel"
    /\ projectExists = TRUE
    /\ screenshot_mode = FALSE
    /\ imgs = <<>>
    /\ featStore = EmptyFeatStore
    /\ metaStore = EmptyMetaStore
    /\ failNext = 0
    /\ InitCommon

SpecCache == InitCache /\ [][CacheNext]_vars

\* ------------------------------------- several runs sharing one cache
\* execute is called again after a run has returned: a new request (its own
\* screenshot_mode) and a new AnalysisResult over the same project, the
\* feature cache keeping what earlier runs stored.
UCRestart ==
    /\ entry = "clean" /\ pc = "done"
    /\ runs < MaxRuns
    /\ runs' = runs + 1
    /\ screenshot_mode' \in BOOLEAN
    /\ pc' = "idle"
    /\ row' = NoRow
    /\ result' = AnalysisResult
    /\ features' = <<>>
    /\ errors' = <<>>
    /\ idx' = 0
    /\ writes' = <<>>
    /\ UNCHANGED <<async_redis_client, threads, entry, wiring, projectExists, imgs, image_ids, fast_features,
                   featStore, metaStore, failNext, cacheFaults, lastOp,
                   computeCalls>>

InitRuns == InitClean /\ projectExists /\ Len(imgs) <= MaxRunImages

RunsNext == UCNext \/ UCRestart

SpecRuns == InitRuns /\ [][RunsNext]_vars

\* ------------------------------------- the stored form of a fast feature
\* A colour component is the numerator of a fraction over ColourDen; the
\* vectors drawn go one step above 1.0 so that the normalising branch of
\* _compress_feature_vector is taken too.  A vector that is out of range with
\* all components equal is not drawn: normalising it divides 0 by 0.
Components == 0..(ColourDen + 1)

SeqMax(v) == CHOOSE x \in Range(v) : \A y \in Range(v) : y <= x
SeqMin(v) == CHOOSE x \in Range(v) : \A y \in Range(v) : x <= y

OutOfRange(v) == v # <<>> /\ (SeqMax(v) > ColourDen \/ SeqMin(v) < 0)

ColourVectors ==
    {v \in {<<>>} \cup [1..ColourChannels -> Components] :
        OutOfRange(v) => SeqMax(v) # SeqMin(v)}

HashVectors == UNION {[1..n -> {0, 1}] : n \in 0..MaxHashBits}

FastFeatureValues ==
    [avg_color_features : ColourVectors, ahash_features : HashVectors]

\* A mutation of _compress_feature_vector: scaling to 8 bits instead of 16.
compress_to_uint8(v) ==
    [i \in 1..Len(v) |-> (v[i] * 255) \div ColourDen]

\* _compress_feature_vector: [] for an empty vector; values outside [0,1] are
\* normalised to (x - min) / (max - min); then (arr * 65535).astype(uint16),
\* which truncates.
compress_feature_vector(v) ==
    IF v = <<>> THEN <<>>
    ELSE IF OutOfRange(v)
    THEN [i \in 1..Len(v) |->
            ((v[i] - SeqMin(v)) * Scale) \div (SeqMax(v) - SeqMin(v))]
    ELSE [i \in 1..Len(v) |-> (v[i] * Scale) \div ColourDen]

\* _decompress_feature_vector: arr / 65535.0; the result is the vector of
\* numerators over Scale.
decompress_feature_vector(c) == c

\* What cache_image_features writes under the fast key for features["fast"]
\* = f: the compressed vector is added to the dict and avg_color_features is
\* deleted from it before the dict is pickled (lines 249-270).
StoredFast(f) ==
    [ahash_features |-> f.ahash_features,
     avg_color_features_compressed |->
         compress_feature_vector(f.avg_color_features)]

\* What get_image_features(id, "fast") returns for the stored dict d (lines
\* 318-328): avg_color_features is rebuilt from the compressed vector.
LoadedFast(d) ==
    [ahash_features |-> d.ahash_features,
     avg_color_features |->
         decompress_feature_vector(d.avg_color_features_compressed)]

CodecIdle == [op |-> "none", given |-> <<>>, stored |-> <<>>, value |-> <<>>]

CodecUnchanged ==
    UNCHANGED <<async_redis_client, threads, entry, wiring, projectExists, screenshot_mode, computeCalls,
                   runs, imgs, pc, row, result, features,
                errors, idx, writes, image_ids, fast_features, featStore,
                metaStore, failNext, cacheFaults>>

\* cache_image_features(id, {"fast": f}) on a healthy connection.
CodecStore(f) ==
    /\ entry = "codec" /\ lastOp.op = "none"
    /\ lastOp' = [op |-> "store", given |-> f, stored |-> StoredFast(f),
                  value |-> <<>>]
    /\ CodecUnchanged

\* get_image_features(id, "fast") of the entry just stored.
CodecLoad ==
    /\ entry = "codec" /\ lastOp.op = "store"
    /\ lastOp' = [lastOp EXCEPT !.op = "load", !.value = LoadedFast(lastOp.stored)]
    /\ CodecUnchanged

CodecNext ==
    \/ \E f \in FastFeatureValues : CodecStore(f)
    \/ CodecLoad

InitCodec ==
    /\ entry = "codec"
    /\ wiring = "sqlmodel"
    /\ projectExists = TRUE
    /\ imgs = <<>>
    /\ pc = "idle"
    /\ row = NoRow
    /\ result = AnalysisResult
    /\ features = <<>>
    /\ errors = <<>>
    /\ idx = 0
    /\ writes = <<>>
    /\ image_ids = <<>>
    /\ fast_features = <<>>
    /\ featStore = EmptyFeatStore
    /\ metaStore = EmptyMetaStore
    /\ failNext = 0
    /\ cacheFaults = 0
    /\ lastOp = CodecIdle
    /\ screenshot_mode = FALSE
    /\ computeCalls = <<>>
    /\ runs = 1
    /\ async_redis_client = 0
    /\ threads = NoThreads

SpecCodec == InitCodec /\ [][CodecNext]_vars

\* ---------------------------------------------------- similarity matrices
\* Scores are kept exact.  A colour distance is the record [sq, size] standing
\* for sqrt(sq) / (ColourDen * size); a cosine is the fraction <<dot^2,
\* |a|^2 * |b|^2>> standing for its square (the components are never
\* negative); a hash score is a fraction <<num, den>>.  Floating point is read
\* as real arithmetic and the 1e-8 added to a non-zero norm is dropped.
MatrixColours == {<<>>} \cup [1..ColourChannels -> {0, ColourDen}]

\* FeatureVector (entities.py 29-41), also what from_cached builds from a
\* cache entry: a missing key gives the empty list.
MatrixFeatures == [avg_color : MatrixColours, ahash : HashVectors]

\* ORB scores of a pair, in hundredths, on both sides of the thresholds 0.1
\* and 0.3 of the fusion.
OrbScores == {0, 10, 11, 30, 31, 100}

Min2(a, b) == IF a <= b THEN a ELSE b

RECURSIVE SeqSum(_)
SeqSum(s) == IF s = <<>> THEN 0 ELSE Head(s) + SeqSum(Tail(s))

SameFraction(a, b) == a[1] * b[2] = b[1] * a[2]

\* _hamming (simple_similarity.py 10-15).
hamming(a, b) ==
    IF a = <<>> \/ b = <<>> THEN One
    ELSE LET size == Min2(Len(a), Len(b))
         IN <<Cardinality({i \in 1..size : a[i] # b[i]}), size>>

\* _l2 (simple_similarity.py 18-24); 1.0 is sqrt(ColourDen^2) / (ColourDen * 1).
l2(a, b) ==
    IF a = <<>> \/ b = <<>> THEN [sq |-> ColourDen * ColourDen, size |-> 1]
    ELSE LET size == Min2(Len(a), Len(b))
         IN [sq |-> SeqSum([i \in 1..size |-> (a[i] - b[i]) * (a[i] - b[i])]),
             size |-> size]

\* SimpleSimilarity._pair_score: round(1 / (1 + (color_dist + ahash_dist) / 2), 4),
\* kept as the two distances it is computed from.
pair_score(f1, f2) ==
    [color_dist |-> l2(f1.avg_color, f2.avg_color),
     ahash_dist |-> hamming(f1.ahash, f2.ahash)]

\* The score is 1.0 exactly when both distances are 0: the smallest non-zero
\* distance of the vectors drawn is far above the 0.0001 of the rounding.
PairScoreIsOne(s) == s.color_dist.sq = 0 /\ s.ahash_dist[1] = 0

SamePairScore(s, t) ==
    /\ s.color_dist.sq * t.color_dist.size * t.color_dist.size
           = t.color_dist.sq * s.color_dist.size * s.color_dist.size
    /\ SameFraction(s.ahash_dist, t.ahash_dist)

\* SimpleSimilarity.compute: for i <= j, scores[i][j] = scores[j][i] =
\* _pair_score(features[i], features[j]).
SimpleSimilarity_compute(feats) ==
    [i \in 1..Len(feats) |-> [j \in 1..Len(feats) |->
        IF i <= j THEN pair_score(feats[i], feats[j])
        ELSE pair_score(feats[j], feats[i])]]

\* np.array(rows, dtype=...) raises on rows of different length.
Ragged(rows) == \E i, j \in 1..Len(rows) : Len(rows[i]) # Len(rows[j])

dot(a, b) == SeqSum([i \in 1..Len(a) |-> a[i] * b[i]])

\* _cosine_similarity_matrix (routers_analysis.py 445-452): X / (|X| + 1e-8),
\* then X_norm @ X_norm.T.  A row of norm 0 (all zero, or empty) is divided by
\* 1e-8 and stays 0.
cosine_similarity_matrix(vectors) ==
    [i \in 1..Len(vectors) |-> [j \in 1..Len(vectors) |->
        LET d == dot(vectors[i], vectors[j])
            ni == dot(vectors[i], vectors[i])
            nj == dot(vectors[j], vectors[j])
        IN IF ni = 0 \/ nj = 0 THEN Zero ELSE <<d * d, ni * nj>>]]

\* _ahash_similarity_matrix (routers_analysis.py 455-468): sim[i, i] = 1.0 and,
\* for i < j, sim[i, j] = sim[j, i] = 1 - dist / bit_len.
ahash_score(hashes, i, j) ==
    LET bit_len == Len(hashes[1])
        dist == Cardinality({k \in 1..bit_len : hashes[i][k] # hashes[j][k]})
    IN <<bit_len - dist, bit_len>>

ahash_similarity_matrix(hashes) ==
    [i \in 1..Len(hashes) |-> [j \in 1..Len(hashes) |->
        IF i = j THEN One
        ELSE IF i < j THEN ahash_score(hashes, i, j)
        ELSE ahash_score(hashes, j, i)]]

\* The division by bit_len fails when the rows are empty and there is a pair.
ahash_similarity_raises(hashes) ==
    Ragged(hashes) \/ (Len(hashes) >= 2 /\ Len(hashes[1]) = 0)

\* combined_fast_sim (routers_analysis.py 987-994): 0.5 * colour + 0.5 * hash,
\* kept as its two terms.
combined_fast(fast_sim, fast_ahash_sim) ==
    [i \in 1..Len(fast_sim) |-> [j \in 1..Len(fast_sim[i]) |->
        [colour |-> fast_sim[i][j], hash |-> fast_ahash_sim[i][j]]]]

\* A mutation of the ORB matrix: only sim[i][j] is written, sim[j][i] keeps
\* the 0.0 it was created with.
orb_matrix_upper_only(n, score) ==
    [i \in 1..n |-> [j \in 1..n |->
        IF i = j THEN 100 ELSE IF i < j THEN score[<<i, j>>] ELSE 0]]

\* The matrix of _orb_pairwise_analysis (routers_analysis.py 561-658, 789):
\* sim[i][i] = 1.0 and every write of a pair's score is
\* sim[i][j] = sim[j][i] = score, for i < j.
orb_matrix(n, score) ==
    [i \in 1..n |-> [j \in 1..n |->
        IF i = j THEN 100
        ELSE IF i < j THEN score[<<i, j>>] ELSE score[<<j, i>>]]]

\* The fusion (routers_analysis.py 1010-1027): the weight of the ORB score, in
\* tenths, chosen by the ORB score of the entry; the fused entry is
\* weight * orb + (1 - weight) * fast, kept as its terms.
\* A mutation of the fusion: the even blend for every ORB score.
orb_weight_even(orb_score) == 5

orb_weight(orb_score) ==
    IF orb_score > 30 THEN 7 ELSE IF orb_score > 10 THEN 5 ELSE 3

hybrid(fast_score, orb_score) ==
    [weight |-> orb_weight(orb_score), orb |-> orb_score, fast |-> fast_score]

final_matrix(combined_fast_sim, orb_sim) ==
    [i \in 1..Len(combined_fast_sim) |-> [j \in 1..Len(combined_fast_sim[i]) |->
        hybrid(combined_fast_sim[i][j], orb_sim[i][j])]]

SameFast(s, t) == SameFraction(s.colour, t.colour) /\ SameFraction(s.hash, t.hash)

SameFinal(s, t) ==
    s.weight = t.weight /\ s.orb = t.orb /\ SameFast(s.fast, t.fast)

FastIsOne(s) == SameFraction(s.colour, One) /\ SameFraction(s.hash, One)

\* weight * orb + (1 - weight) * fast with both terms at most 1 and the weight
\* strictly between 0 and 1 is 1.0 only when both terms are.
FinalIsOne(s) == s.orb = 100 /\ FastIsOne(s.fast)

PairKeys(n) == {p \in (1..n) \X (1..n) : p[1] < p[2]}

\* The three matrices _run_analysis_task stores for the features feats and
\* the ORB scores given per pair.
unified_matrices(feats, score) ==
    LET colours == [k \in 1..Len(feats) |-> feats[k].avg_color]
        hashes == [k \in 1..Len(feats) |-> feats[k].ahash]
        fast == combined_fast(cosine_similarity_matrix(colours),
                              ahash_similarity_matrix(hashes))
        orb == orb_matrix(Len(feats), score)
    IN IF Ragged(colours) \/ ahash_similarity_raises(hashes)
       THEN [raised |-> TRUE, fast |-> <<>>, orb |-> <<>>, final |-> <<>>]
       ELSE [raised |-> FALSE, fast |-> fast, orb |-> orb,
             final |-> final_matrix(fast, orb)]

MatrixIdle == [op |-> "none", given |-> <<>>, stored |-> <<>>, value |-> <<>>]

\* SimpleSimilarity.compute on a pair of features.
MatrixSimple(f1, f2) ==
    /\ entry = "matrix" /\ lastOp.op = "none"
    /\ lastOp' = [op |-> "simple", given |-> <<f1, f2>>, stored |-> <<>>,
                  value |-> [raised |-> FALSE,
                             scores |-> SimpleSimilarity_compute(<<f1, f2>>)]]
    /\ CodecUnchanged

\* The matrices of the unified pipeline on a pair of features.
MatrixUnified(f1, f2, s) ==
    /\ entry = "matrix" /\ lastOp.op = "none"
    /\ lastOp' = [op |-> "unified", given |-> <<f1, f2>>, stored |-> <<>>,
                  value |-> unified_matrices(<<f1, f2>>,
                                [p \in PairKeys(2) |-> s])]
    /\ CodecUnchanged

\* The features of the one call made: none are drawn once it has been made.
MatrixInputs == IF lastOp.op = "none" THEN MatrixFeatures ELSE {}

MatrixNext ==
    \/ \E f1, f2 \in MatrixInputs : MatrixSimple(f1, f2)
    \/ \E f1, f2 \in MatrixInputs : \E s \in OrbScores : MatrixUnified(f1, f2, s)

InitMatrix ==
    /\ entry = "matrix"
    /\ wiring = "sqlmodel"
    /\ projectExists = TRUE
    /\ imgs = <<>>
    /\ pc = "idle"
    /\ row = NoRow
    /\ result = AnalysisResult
    /\ features = <<>>
    /\ errors = <<>>
    /\ idx = 0
    /\ writes = <<>>
    /\ image_ids = <<>>
    /\ fast_features = <<>>
    /\ featStore = EmptyFeatStore
    /\ metaStore = EmptyMetaStore
    /\ failNext = 0
    /\ cacheFaults = 0
    /\ lastOp = MatrixIdle
    /\ screenshot_mode = FALSE
    /\ computeCalls = <<>>
    /\ runs = 1
    /\ async_redis_client = 0
    /\ threads = NoThreads

SpecMatrix == InitMatrix /\ [][MatrixNext]_vars

\* ------------------------------- analysis threads sharing feature_cache
\* _run_analysis_task_wrapper starts one thread per run, each with an event
\* loop of its own; feature_cache is one object of the process.  Its async
\* client, pool and connections are bound to the event loop they were created
\* in: async_redis_client is the thread whose loop that is (0: no client).
ThreadIds == {1, 2}

NewThread == [pc |-> "start", ops |-> 0, status |-> "running",
              cache_failed |-> FALSE]

\* _force_reconnect run by thread t: the old client and pool are closed and
\* dropped, a new client is created and pinged in the loop of t.
force_reconnect_in(t) == t

\* What a cache operation awaited in the loop of thread t can meet.  With the
\* client of its own loop it succeeds.  With a client another thread created
\* (or closed under it) the pool may hand out a fresh connection ("ok"), the
\* closed connection gives a ConnectionError the operation catches, or the
\* connection of the other loop gives a RuntimeError it does not catch.
OpOutcomes(client, t) ==
    IF client = t THEN {"ok"}
    ELSE {"ok", "connection_error", "runtime_error"}

ThreadsUnchanged ==
    UNCHANGED <<entry, wiring, projectExists, screenshot_mode, computeCalls,
                runs, imgs, pc, row, result, features, errors, idx, writes,
                image_ids, fast_features, featStore, metaStore, failNext,
                cacheFaults, lastOp>>

\* Line 887: the reconnect at the start of _run_analysis_task.
ThreadForceReconnectStart(t) ==
    /\ entry = "threads" /\ threads[t].pc = "start"
    /\ async_redis_client' = force_reconnect_in(t)
    /\ threads' = [threads EXCEPT ![t].pc = "running"]
    /\ ThreadsUnchanged

\* One of the run's cache operations (batch_get_features, get_image_features):
\* a caught connection error gives a miss and a reconnect in the loop of t; an
\* uncaught error reaches the except branch of _run_analysis_task, which
\* marks the run failed.
ThreadCacheOp(t, outcome) ==
    /\ entry = "threads"
    /\ threads[t].pc = "running"
    /\ threads[t].ops < MaxCacheOps
    /\ outcome \in OpOutcomes(async_redis_client, t)
    /\ IF outcome = "ok"
       THEN /\ threads' = [threads EXCEPT ![t].ops = @ + 1]
            /\ UNCHANGED async_redis_client
       ELSE IF outcome = "connection_error"
       THEN /\ threads' = [threads EXCEPT ![t].ops = @ + 1,
                                          ![t].cache_failed = TRUE]
            /\ async_redis_client' = force_reconnect_in(t)
       ELSE /\ threads' = [threads EXCEPT ![t].ops = @ + 1,
                                          ![t].cache_failed = TRUE,
                                          ![t].status = "failed",
                                          ![t].pc = "end"]
            /\ UNCHANGED async_redis_client
    /\ ThreadsUnchanged

\* The run stores its result.
ThreadComplete(t) ==
    /\ entry = "threads" /\ threads[t].pc = "running"
    /\ threads' = [threads EXCEPT ![t].status = "completed", ![t].pc = "end"]
    /\ UNCHANGED async_redis_client
    /\ ThreadsUnchanged

\* Line 1087: the reconnect in the finally block; the thread's loop is closed
\* afterwards, the client stays bound to it.
ThreadForceReconnectEnd(t) ==
    /\ entry = "threads" /\ threads[t].pc = "end"
    /\ async_redis_client' = force_reconnect_in(t)
    /\ threads' = [threads EXCEPT ![t].pc = "closed"]
    /\ ThreadsUnchanged

ThreadsNext ==
    \/ \E t \in ThreadIds : ThreadForceReconnectStart(t)
    \/ \E t \in ThreadIds : \E o \in {"ok", "connection_error", "runtime_error"} :
           ThreadCacheOp(t, o)
    \/ \E t \in ThreadIds : ThreadComplete(t)
    \/ \E t \in ThreadIds : ThreadForceReconnectEnd(t)

InitThreads ==
    /\ entry = "threads"
    /\ wiring = "sqlmodel"
    /\ projectExists = TRUE
    /\ imgs = <<>>
    /\ pc = "idle"
    /\ row = NoRow
    /\ result = AnalysisResult
    /\ features = <<>>
    /\ errors = <<>>
    /\ idx = 0
    /\ writes = <<>>
    /\ image_ids = <<>>
    /\ fast_features = <<>>
    /\ featStore = EmptyFeatStore
    /\ metaStore = EmptyMetaStore
    /\ failNext = 0
    /\ cacheFaults = 0
    /\ lastOp = NoOp
    /\ screenshot_mode = FALSE
    /\ computeCalls = <<>>
    /\ runs = 1
    /\ async_redis_client = 0
    /\ threads = [t \in ThreadIds |-> NewThread]

SpecThreads == InitThreads /\ [][ThreadsNext]_vars

\* ------------------------------------- screenshot modes of the ORB analysis
\* An image as _orb_pairwise_analysis sees it: the verdict of
\* _detect_screenshot_mode, the (width, height) PIL reports, (0, 0) when PIL
\* cannot open the file, and whether cv2.imread and the extraction give
\* descriptors.  A file PIL cannot open is taken to be unreadable for cv2 too.
OrbSizes == {<<0, 0>>, <<10, 10>>, <<13, 10>>, <<16, 10>>, <<10, 16>>}

OrbImageValues ==
    {v \in [detected : BOOLEAN, size : OrbSizes, readable : BOOLEAN] :
        v.size = <<0, 0>> => ~v.readable}

OrbImageLists == UNION {[1..n -> OrbImageValues] : n \in 1..MaxOrbImages}

Max2(a, b) == IF a >= b THEN a ELSE b

\* Lines 510-527: area_ratio > 1.3 or max(width_ratio, height_ratio) > 1.5,
\* for sizes with no zero dimension; the ratios are compared exactly.
resolution_mismatch(s1, s2) ==
    LET w1 == s1[1]
        h1 == s1[2]
        w2 == s2[1]
        h2 == s2[2]
        area1 == w1 * h1
        area2 == w2 * h2
    IN /\ w1 > 0 /\ w2 > 0 /\ h1 > 0 /\ h2 > 0
       /\ \/ 10 * Max2(area1, area2) > 13 * Min2(area1, area2)
          \/ 2 * Max2(w1, w2) > 3 * Min2(w1, w2)
          \/ 2 * Max2(h1, h2) > 3 * Min2(h1, h2)

\* A mutation of lines 530-531: only the first image of the pair is marked.
mark_first_only(modes, i, j) == [modes EXCEPT ![i] = TRUE]

\* Lines 530-531: screenshot_modes[i] = True; screenshot_modes[j] = True.
mark_pair(modes, i, j) == [modes EXCEPT ![i] = TRUE, ![j] = TRUE]

\* The pairs (i, j), i < j, in the order of the nested loops.
RECURSIVE pairs_from(_, _, _)
pairs_from(i, j, n) ==
    IF i > n THEN <<>>
    ELSE IF j > n THEN pairs_from(i + 1, i + 2, n)
    ELSE <<<<i, j>>>> \o pairs_from(i, j + 1, n)

\* Lines 506-531: the loop over the pairs, updating screenshot_modes.
RECURSIVE mismatch_loop(_, _, _)
mismatch_loop(modes, images, pairs) ==
    IF pairs = <<>> THEN modes
    ELSE LET i == Head(pairs)[1]
             j == Head(pairs)[2]
         IN mismatch_loop(
                IF resolution_mismatch(images[i].size, images[j].size)
                THEN mark_pair(modes, i, j) ELSE modes,
                images, Tail(pairs))

\* Lines 487-531: the per-image verdicts, then the mismatch loop.
screenshot_modes(images) ==
    mismatch_loop([k \in 1..Len(images) |-> images[k].detected], images,
                  pairs_from(1, 2, Len(images)))

\* Lines 543-556: _extract_enhanced_features(path, screenshot_modes[i]) for
\* every image cv2 can read.
extraction(images, modes) ==
    [k \in 1..Len(images) |->
        IF images[k].readable
        THEN [done |-> TRUE, screenshot_mode |-> modes[k]]
        ELSE [done |-> FALSE, screenshot_mode |-> FALSE]]

\* Lines 595-606: size_ratio < 0.65 and aspect_diff < 0.25 on the shapes of
\* the two images read.
is_crop_pair(s1, s2) ==
    LET area1 == s1[1] * s1[2]
        area2 == s2[1] * s2[2]
        cross == s1[1] * s2[2] - s2[1] * s1[2]
        abs == IF cross < 0 THEN 0 - cross ELSE cross
    IN /\ 100 * Min2(area1, area2) < 65 * Max2(area1, area2)
       /\ 4 * abs < s1[2] * s2[2]

\* Lines 571-640: a pair without descriptors on one side is scored 0 and not
\* matched; otherwise the ratio test (threshold in hundredths) and
\* _adaptive_screenshot_match_filter take the modes of the pair.
matching(images, modes) ==
    [p \in PairKeys(Len(images)) |->
        IF ~images[p[1]].readable \/ ~images[p[2]].readable
        THEN [matched |-> FALSE, is_screenshot_pair |-> FALSE,
              ratio_threshold |-> 0, filter_screenshot_mode |-> FALSE]
        ELSE LET sp == modes[p[1]] \/ modes[p[2]]
                 cp == is_crop_pair(images[p[1]].size, images[p[2]].size)
             IN [matched |-> TRUE, is_screenshot_pair |-> sp,
                 ratio_threshold |-> IF sp \/ cp THEN 90 ELSE 85,
                 filter_screenshot_mode |-> sp \/ cp]]

\* The image lists of the one call made: none are drawn once it has been made.
OrbInputs == IF lastOp.op = "none" THEN OrbImageLists ELSE {}

\* _orb_pairwise_analysis(image_paths).
OrbPairwise(images) ==
    /\ entry = "orb" /\ lastOp.op = "none"
    /\ lastOp' = [op |-> "orb", given |-> images,
                  stored |-> screenshot_modes(images),
                  value |-> [extraction |->
                                 extraction(images, screenshot_modes(images)),
                             matching |->
                                 matching(images, screenshot_modes(images))]]
    /\ CodecUnchanged

OrbNext == \E images \in OrbInputs : OrbPairwise(images)

InitOrb ==
    /\ entry = "orb"
    /\ wiring = "sqlmodel"
    /\ projectExists = TRUE
    /\ imgs = <<>>
    /\ pc = "idle"
    /\ row = NoRow
    /\ result = AnalysisResult
    /\ features = <<>>
    /\ errors = <<>>
    /\ idx = 0
    /\ writes = <<>>
    /\ image_ids = <<>>
    /\ fast_features = <<>>
    /\ featStore = EmptyFeatStore
    /\ metaStore = EmptyMetaStore
    /\ failNext = 0
    /\ cacheFaults = 0
    /\ lastOp = MatrixIdle
    /\ screenshot_mode = FALSE
    /\ computeCalls = <<>>
    /\ runs = 1
    /\ async_redis_client = 0
    /\ threads = NoThreads

SpecOrb == InitOrb /\ [][OrbNext]_vars

\* ------------------------------------------------- adaptive match filter
\* A match is its descriptor distance.  The filters sort, select and count, so
\* their result as a collection does not depend on the order of the input:
\* the candidates are drawn as a number of matches per distance value and
\* listed in ascending order.  Thresholds are kept in hundredths.
DistanceValues == <<40, 60, 100, 220>>

MatchCounts == [1..Len(DistanceValues) -> 0..MaxPerDistance]

Repeat(x, n) == [k \in 1..n |-> x]

RECURSIVE matches_of(_, _)
matches_of(counts, k) ==
    IF k > Len(DistanceValues) THEN <<>>
    ELSE Repeat(DistanceValues[k], counts[k]) \o matches_of(counts, k + 1)

\* The image-size factor of a pair, avg_img_size / 1e6, in tenths.
SizeFactors == {5, 10, 20}

Take(s, n) == SubSeq(s, 1, Min2(n, Len(s)))

\* np.percentile(distances, p) with linear interpolation, times 100, on the
\* ascending list.
percentile(sorted, p) ==
    LET pos == p * (Len(sorted) - 1)
        k == pos \div 100
        rem == pos % 100
    IN IF rem = 0 THEN 100 * sorted[k + 1]
       ELSE 100 * sorted[k + 1] + rem * (sorted[k + 2] - sorted[k + 1])

\* _get_dynamic_distance_threshold (lines 70-81), times 100.
get_dynamic_distance_threshold(matches, p) ==
    IF matches = <<>> THEN 100 * 100
    ELSE Max2(50 * 100, Min2(200 * 100, percentile(matches, p)))

within_threshold(matches, threshold) ==
    SelectSeq(matches, LAMBDA d : 100 * d <= threshold)

\* Line 101: keep_ratio = max(0.2, min(0.5, 0.3 * image_size_factor)), in
\* hundredths, for a factor in tenths.
keep_ratio(image_size_factor) == Max2(20, Min2(50, 3 * image_size_factor))

\* Lines 96-103: the candidates within the threshold, then the best max_keep.
hq_passing(matches) ==
    within_threshold(matches, get_dynamic_distance_threshold(matches, 70))

hq_kept(matches, image_size_factor, min_matches) ==
    LET good == hq_passing(matches)
    IN Take(good, Max2(min_matches,
                       (Len(good) * keep_ratio(image_size_factor)) \div 100))

Squares(s) == [k \in 1..Len(s) |-> s[k] * s[k]]

\* Lines 106-119: abs(z_score) < 2.0, with z_score 0 when the deviation is 0;
\* compared as (n d - sum)^2 < 4 (n sumsq - sum^2).
z_filtered(good) ==
    LET n == Len(good)
        sum == SeqSum(good)
        nvar == n * SeqSum(Squares(good)) - sum * sum
    IN SelectSeq(good, LAMBDA d :
           nvar = 0 \/ (n * d - sum) * (n * d - sum) < 4 * nvar)

\* _filter_high_quality_matches (lines 84-121).
filter_high_quality_matches(matches, image_size_factor, min_matches) ==
    IF Len(matches) < min_matches THEN matches
    ELSE LET good == hq_kept(matches, image_size_factor, min_matches)
         IN IF Len(good) >= 4 /\ Len(z_filtered(good)) >= min_matches
            THEN z_filtered(good) ELSE good

\* The screenshot branch of _adaptive_screenshot_match_filter (lines 339-359).
screenshot_passing(matches) ==
    within_threshold(matches, get_dynamic_distance_threshold(matches, 90))

screenshot_kept(matches) ==
    LET good == screenshot_passing(matches)
    IN Take(good, Max2(3, (Len(good) * 70) \div 100))

\* _adaptive_screenshot_match_filter (lines 331-362): the normal branch calls
\* _filter_high_quality_matches(matches) with its defaults, image_size_factor
\* 1.0 and min_matches 10.
adaptive_screenshot_match_filter(matches, mode) ==
    IF matches = <<>> THEN <<>>
    ELSE IF mode
    THEN IF Len(screenshot_kept(matches)) < 3 /\ Len(matches) >= 3
         THEN Take(matches, 3) ELSE screenshot_kept(matches)
    ELSE filter_high_quality_matches(matches, 10, 10)

\* The candidates of the one call made: none are drawn once it has been made.
FilterInputs == IF lastOp.op = "none" THEN MatchCounts ELSE {}

\* Lines 628-639 of _orb_pairwise_analysis: image_size_factor is computed for
\* the pair, and the filter is called with the matches and the mode only.
FilterPair(counts, mode, image_size_factor) ==
    /\ entry = "filter" /\ lastOp.op = "none"
    /\ LET matches == matches_of(counts, 1)
       IN lastOp' =
              [op |-> "filter",
               given |-> [matches |-> matches, screenshot_mode |-> mode,
                          image_size_factor |-> image_size_factor],
               stored |-> [passing |-> IF mode THEN Len(screenshot_passing(matches))
                                       ELSE Len(hq_passing(matches)),
                           kept |-> IF mode THEN Len(screenshot_kept(matches))
                                    ELSE Len(hq_kept(matches, 10, 10))],
               value |-> adaptive_screenshot_match_filter(matches, mode)]
    /\ CodecUnchanged

FilterNext ==
    \E counts \in FilterInputs : \E mode \in BOOLEAN : \E f \in SizeFactors :
        FilterPair(counts, mode, f)

InitFilter ==
    /\ entry = "filter"
    /\ wiring = "sqlmodel"
    /\ projectExists = TRUE
    /\ imgs = <<>>
    /\ pc = "idle"
    /\ row = NoRow
    /\ result = AnalysisResult
    /\ features = <<>>
    /\ errors = <<>>
    /\ idx = 0
    /\ writes = <<>>
    /\ image_ids = <<>>
    /\ fast_features = <<>>
    /\ featStore = EmptyFeatStore
    /\ metaStore = EmptyMetaStore
    /\ failNext = 0
    /\ cacheFaults = 0
    /\ lastOp = MatrixIdle
    /\ screenshot_mode = FALSE
    /\ computeCalls = <<>>
    /\ runs = 1
    /\ async_redis_client = 0
    /\ threads = NoThreads

SpecFilter == InitFilter /\ [][FilterNext]_vars

\* ------------------------------------ geometric verification of one pair
\* The part of _orb_pairwise_analysis after the filter, for one pair (i, j)
\* with both images read.  The good matches are numbered 1..count.  Scores are
\* in units of 1/100000.  The two values _compute_enhanced_similarity returns,
\* for the good matches and for the inliers with their count, are drawn: with
\* at least one match the function is positive and at most 1.0.
ScoreOne == 100 * 1000

EnhancedScores == {10 * 1000, 40 * 1000, 90 * 1000}

\* The outcomes of cv2.findHomography: an exception, no matrix, or a matrix
\* with its inlier mask.
Homographies(count) ==
    {[kind |-> "raised", inliers |-> {}], [kind |-> "none", inliers |-> {}]}
        \cup [kind : {"found"}, inliers : SUBSET (1..count)]

\* Lines 649-654: the bonus for a screenshot pair with at least 3 matches.
bonus(score, count) ==
    Min2(ScoreOne, (score * (100 + (count - 3) * 8)) \div 100)

\* A mutation of lines 677-685: two inliers are enough for every pair.
min_inliers_always_two(is_screenshot_pair, crop) == 2

\* Lines 677-685.
min_inliers(is_screenshot_pair, crop) ==
    IF is_screenshot_pair THEN 2 ELSE IF crop THEN 2 ELSE 3

\* Lines 689-709 and 775: the mask is kept only when a matrix was found with
\* at least min_inliers inliers.
verified(h, is_screenshot_pair, crop) ==
    /\ h.kind = "found"
    /\ Cardinality(h.inliers) >= min_inliers(is_screenshot_pair, crop)

\* Lines 825-839.
fallback_score(score, is_screenshot_pair, crop) ==
    IF is_screenshot_pair THEN (score * 7) \div 10
    ELSE IF crop THEN (score * 8) \div 10
    ELSE (score * 5) \div 10

NoRegion ==
    [present |-> FALSE, score |-> 0, match_count |-> 0, inlier_count |-> 0,
     quad_in_target |-> FALSE, bbox_in_target |-> FALSE, matches |-> {}]

\* Lines 639-841 for one pair: sim is the entry sim[i][j] = sim[j][i] at the
\* end, region the PairwiseRegion appended (quad and bbox: whether non-null).
\* plain and enhanced are the two values of _compute_enhanced_similarity;
\* transform_ok is whether cv2.perspectiveTransform returned.
pair_outcome(count, is_screenshot_pair, crop, h, transform_ok, plain, enhanced) ==
    LET score0 == IF count = 0 THEN 0 ELSE plain
        score == IF is_screenshot_pair /\ count >= 3
                 THEN bonus(score0, count) ELSE score0
        ok == verified(h, is_screenshot_pair, crop)
        visualization_matches == IF ok THEN h.inliers ELSE 1..count
        inlier_count == IF ok THEN Cardinality(visualization_matches) ELSE 0
    IN IF count < 2
       THEN [sim |-> score, region |-> NoRegion]
       ELSE IF ok
       THEN [sim |-> enhanced,
             region |-> [present |-> TRUE, score |-> enhanced,
                         match_count |-> count, inlier_count |-> inlier_count,
                         quad_in_target |-> transform_ok,
                         bbox_in_target |-> transform_ok,
                         matches |-> visualization_matches]]
       ELSE [sim |-> score,
             region |-> [present |-> TRUE,
                         score |-> fallback_score(score, is_screenshot_pair, crop),
                         match_count |-> count, inlier_count |-> inlier_count,
                         quad_in_target |-> FALSE, bbox_in_target |-> FALSE,
                         matches |-> visualization_matches]]

\* The match counts of the one pair processed: none once it has been.
PairInputs == IF lastOp.op = "none" THEN 0..MaxGoodMatches ELSE {}

PairVerify(count, sp, cp, h, transform_ok, plain, enhanced) ==
    /\ entry = "pair" /\ lastOp.op = "none"
    /\ lastOp' = [op |-> "pair",
                  given |-> [count |-> count, is_screenshot_pair |-> sp,
                             is_crop_pair |-> cp, homography |-> h,
                             plain |-> plain, enhanced |-> enhanced],
                  stored |-> <<>>,
                  value |-> pair_outcome(count, sp, cp, h, transform_ok,
                                         plain, enhanced)]
    /\ CodecUnchanged

PairNext ==
    \E count \in PairInputs : \E sp, cp, t \in BOOLEAN :
        \E h \in Homographies(count) : \E plain, enhanced \in EnhancedScores :
            PairVerify(count, sp, cp, h, t, plain, enhanced)

InitPair ==
    /\ entry = "pair"
    /\ wiring = "sqlmodel"
    /\ projectExists = TRUE
    /\ imgs = <<>>
    /\ pc = "idle"
    /\ row = NoRow
    /\ result = AnalysisResult
    /\ features = <<>>
    /\ errors = <<>>
    /\ idx = 0
    /\ writes = <<>>
    /\ image_ids = <<>>
    /\ fast_features = <<>>
    /\ featStore = EmptyFeatStore
    /\ metaStore = EmptyMetaStore
    /\ failNext = 0
    /\ cacheFaults = 0
    /\ lastOp = MatrixIdle
    /\ screenshot_mode = FALSE
    /\ computeCalls = <<>>
    /\ runs = 1
    /\ async_redis_client = 0
    /\ threads = NoThreads

SpecPair == InitPair /\ [][PairNext]_vars

\* ------------------------------------------------------- cache statistics
\* The counters ImageFeatureCache keeps in Redis (stats:<name> keys) and the
\* events of the calls made so far.  lastOp holds both: cache_hits,
\* cache_misses, cache_invalidations and cache_errors are the Redis keys;
\* lookups, invalidated and failed count what the calls did.
MaxStatCalls == 4
MaxStatFaults == 2

StatsIdle ==
    [op |-> "none", cache_hits |-> 0, cache_misses |-> 0,
     cache_invalidations |-> 0, cache_errors |-> 0,
     lookups |-> 0, invalidated |-> 0, failed |-> 0, calls |-> 0,
     returned |-> [empty |-> TRUE, cache_hits |-> 0, cache_misses |-> 0,
                   cache_errors |-> 0, cache_invalidations |-> 0,
                   hit_rate |-> 0]]

\* round(hits / total, 4), in units of 1/10000.
hit_rate(hits, total) ==
    IF total > 0 THEN (2 * hits * 10000 + total) \div (2 * total) ELSE 0

\* get_image_features, lines 328-332: incr cache_hits when data came back,
\* incr cache_misses otherwise.
hit_increment(found) == IF found THEN 1 ELSE 0
miss_increment(found) == IF found THEN 0 ELSE 1

\* batch_get_features, lines 431-450: an id is in results when its metadata
\* names a feature key that holds data.
batch_results(st, ids) ==
    {i \in Range(ids) : \E t \in st.ms[i] : st.fs[<<i, t>>].fmt # "none"}

StatIdLists == {<<>>} \cup {<<a>> : a \in CacheIds}
                  \cup {<<a, b>> : a \in CacheIds, b \in CacheIds}

StatsUnchanged ==
    UNCHANGED <<async_redis_client, threads, entry, wiring, projectExists, screenshot_mode, computeCalls,
                   runs, imgs, pc, row, result, features,
                errors, idx, writes, image_ids, fast_features, cacheFaults>>

StatsCallable == entry = "stats" /\ lastOp.calls < MaxStatCalls

StatsStore(st) ==
    /\ featStore' = st.fs
    /\ metaStore' = st.ms
    /\ failNext' = st.fail

\* get_image_features(id, kind) with its counters.
StatsGet(id, kind) ==
    /\ StatsCallable
    /\ LET g == get_image_features(CacheNow, id, kind)
           ended_in_error == failNext > 0
           found == g.src # 0
       IN /\ StatsStore(g.st)
          /\ lastOp' = IF ended_in_error
                       THEN [lastOp EXCEPT !.op = "get", !.calls = @ + 1,
                                           !.failed = @ + 1]
                       ELSE [lastOp EXCEPT !.op = "get", !.calls = @ + 1,
                                           !.lookups = @ + 1,
                                           !.cache_hits = @ + hit_increment(found),
                                           !.cache_misses = @ + miss_increment(found)]
    /\ StatsUnchanged

\* batch_get_features(ids): incrby cache_hits len(results), incrby
\* cache_misses len(image_ids) - len(results), lines 453-454.
StatsBatchGet(ids) ==
    /\ StatsCallable
    /\ LET b == batch_get_features(CacheNow, ids)
           ended_in_error == failNext > 0
           n == Cardinality(batch_results(CacheNow, ids))
       IN /\ StatsStore(b.st)
          /\ lastOp' = IF ended_in_error
                       THEN [lastOp EXCEPT !.op = "batch_get", !.calls = @ + 1,
                                           !.failed = @ + 1]
                       ELSE [lastOp EXCEPT !.op = "batch_get", !.calls = @ + 1,
                                           !.lookups = @ + Len(ids),
                                           !.cache_hits = @ + n,
                                           !.cache_misses = @ + Len(ids) - n]
    /\ StatsUnchanged

\* cache_image_features(id, {"fast": ...}): cache_operations and
\* cached_images are the only counters it touches.
StatsSet(id) ==
    /\ StatsCallable
    /\ LET c == cache_image_features(CacheNow, id, {"fast"}, id)
       IN /\ StatsStore(c.st)
          /\ lastOp' = [lastOp EXCEPT !.op = "set", !.calls = @ + 1,
                                      !.failed = @ + (IF c.ok THEN 0 ELSE 1)]
    /\ StatsUnchanged

\* invalidate_image_cache(id): incr cache_invalidations after the deletes;
\* a connection error drops the client and returns False.
StatsInvalidate(id) ==
    /\ StatsCallable
    /\ IF failNext > 0
       THEN /\ failNext' = failNext - 1
            /\ UNCHANGED <<featStore, metaStore>>
            /\ lastOp' = [lastOp EXCEPT !.op = "invalidate", !.calls = @ + 1,
                                        !.failed = @ + 1]
       ELSE /\ featStore' = [k \in ImageIds \X Kinds |->
                               IF k[1] = id /\ k[2] \in metaStore[id]
                               THEN NoPayload ELSE featStore[k]]
            /\ metaStore' = [metaStore EXCEPT ![id] = {}]
            /\ UNCHANGED failNext
            /\ lastOp' = [lastOp EXCEPT !.op = "invalidate", !.calls = @ + 1,
                                        !.invalidated = @ + 1,
                                        !.cache_invalidations = @ + 1]
    /\ StatsUnchanged

\* get_cache_stats: one pipeline reads the counters; {} on a connection
\* error, which drops the client.
get_cache_stats(s, fail) ==
    IF fail > 0
    THEN [empty |-> TRUE, cache_hits |-> 0, cache_misses |-> 0,
          cache_errors |-> 0, cache_invalidations |-> 0, hit_rate |-> 0]
    ELSE [empty |-> FALSE, cache_hits |-> s.cache_hits,
          cache_misses |-> s.cache_misses, cache_errors |-> s.cache_errors,
          cache_invalidations |-> s.cache_invalidations,
          hit_rate |-> hit_rate(s.cache_hits, s.cache_hits + s.cache_misses)]

StatsRead ==
    /\ entry = "stats"
    /\ lastOp.op # "stats"
    /\ lastOp' = [lastOp EXCEPT !.op = "stats",
                                !.failed = @ + (IF failNext > 0 THEN 1 ELSE 0),
                                !.returned = get_cache_stats(lastOp, failNext)]
    /\ failNext' = IF failNext > 0 THEN failNext - 1 ELSE 0
    /\ UNCHANGED <<featStore, metaStore>>
    /\ StatsUnchanged

\* The connection to Redis is lost for the next command.
StatsConnectionLoss ==
    /\ StatsCallable
    /\ failNext = 0
    /\ lastOp.failed < MaxStatFaults
    /\ failNext' = 1
    /\ UNCHANGED <<featStore, metaStore, lastOp>>
    /\ StatsUnchanged

StatsNext ==
    \/ \E id \in CacheIds, kind \in Kinds : StatsGet(id, kind)
    \/ \E ids \in StatIdLists : StatsBatchGet(ids)
    \/ \E id \in CacheIds : StatsSet(id)
    \/ \E id \in CacheIds : StatsInvalidate(id)
    \/ StatsRead
    \/ StatsConnectionLoss

InitStats ==
    /\ entry = "stats"
    /\ wiring = "sqlmodel"
    /\ projectExists = TRUE
    /\ imgs = <<>>
    /\ pc = "idle"
    /\ row = NoRow
    /\ result = AnalysisResult
    /\ features = <<>>
    /\ errors = <<>>
    /\ idx = 0
    /\ writes = <<>>
    /\ image_ids = <<>>
    /\ fast_features = <<>>
    /\ featStore = EmptyFeatStore
    /\ metaStore = EmptyMetaStore
    /\ failNext = 0
    /\ cacheFaults = 0
    /\ lastOp = StatsIdle
    /\ screenshot_mode = FALSE
    /\ computeCalls = <<>>
    /\ runs = 1
    /\ async_redis_client = 0
    /\ threads = NoThreads

SpecStats == InitStats /\ [][StatsNext]_vars

\* ------------------------------------- _batch_compute_fast_features alone
\* One call as _run_analysis_task makes it (lines 983-985): image_ids and
\* image_paths are those of the downloaded images, the cache holds what
\* earlier runs left.  A feature is named by the image it was computed from.
BatchCompute ==
    /\ entry = "batch" /\ pc = "idle"
    /\ LET b == batch_compute_fast_features(CacheNow, Downloaded)
       IN /\ featStore' = b.st.fs
          /\ metaStore' = b.st.ms
          /\ failNext' = b.st.fail
          /\ cacheFaults' = b.st.faults
          /\ image_ids' = Ids(Downloaded)
          /\ fast_features' = b.feats
          /\ pc' = IF b.raised THEN "batch_raised" ELSE "batch_returned"
    /\ UNCHANGED <<async_redis_client, threads, entry, wiring, projectExists, screenshot_mode, computeCalls,
                   runs, imgs, row, result, features, errors, idx, writes, lastOp>>

BatchNext == BatchCompute

InitBatch ==
    /\ entry = "batch"
    /\ wiring = "sqlmodel"
    /\ projectExists = TRUE
    /\ screenshot_mode = FALSE
    /\ imgs \in {WithIds(s) : s \in ImageLists("unified", wiring)}
    /\ featStore = StoreOf(imgs)
    /\ metaStore = MetaOf(imgs)
    /\ failNext \in {0, 1}
    /\ InitCommon

SpecBatch == InitBatch /\ [][BatchNext]_vars

\* ---------------------------------------- the download loop of the task
\* _run_analysis_task, lines 909-947: every image of the project is
\* downloaded and written to os.path.join(temp_dir, img.filename).  The
\* filename is the name the client uploaded the file under (routers_upload.py
\* line 38); the bytes of an image are named by its id.  lastOp holds the
\* temporary directory (files), image_paths and what the ORB phase reads.
Filenames == {"a.png", "b.png"}

NamedImageLists ==
    UNION {[1..n -> [filename : Filenames, downloadable : BOOLEAN]] :
              n \in 0..MaxImages}

WithNames(s) ==
    [k \in 1..Len(s) |->
        [id |-> k, filename |-> s[k].filename, downloadable |-> s[k].downloadable]]

DownloadIdle ==
    [op |-> "none", files |-> [f \in Filenames |-> 0], image_paths |-> <<>>,
     read |-> <<>>]

\* temp_path = os.path.join(temp_dir, img.filename)
temp_path(img) == img.filename

DownloadUnchanged ==
    UNCHANGED <<async_redis_client, threads, entry, wiring, projectExists, screenshot_mode, computeCalls,
                   runs, imgs, row, result, features, errors, writes,
                fast_features, featStore, metaStore, failNext, cacheFaults>>

\* One turn of the loop: a failed download is skipped (lines 943-946).
DownloadImage ==
    /\ entry = "download" /\ pc = "idle" /\ idx < Len(imgs)
    /\ LET img == imgs[idx + 1]
       IN IF img.downloadable
          THEN /\ lastOp' = [lastOp EXCEPT
                               !.op = "download",
                               !.files = [@ EXCEPT ![temp_path(img)] = img.id],
                               !.image_paths = Append(@, temp_path(img))]
               /\ image_ids' = Append(image_ids, img.id)
          ELSE /\ lastOp' = [lastOp EXCEPT !.op = "skip"]
               /\ UNCHANGED image_ids
    /\ idx' = idx + 1
    /\ UNCHANGED pc
    /\ DownloadUnchanged

\* Line 1001: _orb_pairwise_analysis(image_paths) reads every path; the
\* uncached fast features (line 983) read the same paths.
ReadImages ==
    /\ entry = "download" /\ pc = "idle" /\ idx = Len(imgs)
    /\ lastOp.image_paths # <<>>
    /\ lastOp' = [lastOp EXCEPT
                    !.op = "read",
                    !.read = [k \in 1..Len(lastOp.image_paths) |->
                                 lastOp.files[lastOp.image_paths[k]]]]
    /\ pc' = "analysed"
    /\ UNCHANGED <<idx, image_ids>>
    /\ DownloadUnchanged

DownloadNext == DownloadImage \/ ReadImages

InitDownload ==
    /\ entry = "download"
    /\ wiring = "sqlmodel"
    /\ projectExists = TRUE
    /\ imgs \in {WithNames(s) : s \in NamedImageLists}
    /\ pc = "idle"
    /\ row = NoRow
    /\ result = AnalysisResult
    /\ features = <<>>
    /\ errors = <<>>
    /\ idx = 0
    /\ writes = <<>>
    /\ image_ids = <<>>
    /\ fast_features = <<>>
    /\ featStore = EmptyFeatStore
    /\ metaStore = EmptyMetaStore
    /\ failNext = 0
    /\ cacheFaults = 0
    /\ lastOp = DownloadIdle
    /\ screenshot_mode = FALSE
    /\ computeCalls = <<>>
    /\ runs = 1
    /\ async_redis_client = 0
    /\ threads = NoThreads

SpecDownload == InitDownload /\ [][DownloadNext]_vars

\* ------------------------------------------------- the fusion of one entry
\* Lines 1014-1027 on numbers: fast_score and orb_score in hundredths, the
\* hybrid score in thousandths.
FusionScores == 0..100

hybrid_score(fast_score, orb_score) ==
    orb_weight(orb_score) * orb_score + (10 - orb_weight(orb_score)) * fast_score

FusionInputs == IF lastOp.op = "none" THEN FusionScores ELSE {}

FuseEntry(fast_score, orb_score) ==
    /\ entry = "fusion" /\ lastOp.op = "none"
    /\ lastOp' = [op |-> "fuse",
                  given |-> [fast_score |-> fast_score, orb_score |-> orb_score],
                  stored |-> <<>>,
                  value |-> hybrid_score(fast_score, orb_score)]
    /\ CodecUnchanged

FusionNext ==
    \E fast_score \in FusionInputs : \E orb_score \in FusionScores :
        FuseEntry(fast_score, orb_score)

InitFusion ==
    /\ entry = "fusion"
    /\ wiring = "sqlmodel"
    /\ projectExists = TRUE
    /\ imgs = <<>>
    /\ pc = "idle"
    /\ row = NoRow
    /\ result = AnalysisResult
    /\ features = <<>>
    /\ errors = <<>>
    /\ idx = 0
    /\ writes = <<>>
    /\ image_ids = <<>>
    /\ fast_features = <<>>
    /\ featStore = EmptyFeatStore
    /\ metaStore = EmptyMetaStore
    /\ failNext = 0
    /\ cacheFaults = 0
    /\ lastOp = MatrixIdle
    /\ screenshot_mode = FALSE
    /\ computeCalls = <<>>
    /\ runs = 1
    /\ async_redis_client = 0
    /\ threads = NoThreads

SpecFusion == InitFusion /\ [][FusionNext]_vars

\* ------------------------------------------ multi-scale keypoint mapping
\* _extract_enhanced_features on an image of w x h pixels.  Scales are in
\* hundredths.  cv2.ORB_create(nfeatures=...) keeps its default edgeThreshold:
\* a keypoint of a scaled image of new_w x new_h pixels has
\* edgeThreshold <= x < new_w - edgeThreshold, likewise y, and an image not
\* larger than twice the threshold has none.
ImageDimensions == {50, 101, 150, 10000}

ScreenshotScales == <<10, 20, 35, 50, 70, 100, 140, 200, 300, 500, 1000>>

NormalScales == <<40, 60, 80, 100, 125, 160, 250>>

\* Lines 233-261.
scales(w, h, mode) ==
    IF h < min_size_for_multiscale \/ w < min_size_for_multiscale THEN <<100>>
    ELSE IF mode THEN ScreenshotScales
    ELSE NormalScales

\* Lines 268-274: int(dim * scale), at least 32; the image itself at 1.0.
scaled_dim(dim, scale) ==
    IF scale = 100 THEN dim ELSE Max2(32, (dim * scale) \div 100)

\* Lines 277-279 and 289: min(new_h / h, new_w / w), as a fraction.
actual_scale(w, h, scale) ==
    IF scaled_dim(h, scale) * w <= scaled_dim(w, scale) * h
    THEN <<scaled_dim(h, scale), h>> ELSE <<scaled_dim(w, scale), w>>

\* The extreme keypoint coordinates of a scaled dimension.
KeypointCoordinates(new_dim) ==
    IF new_dim <= 2 * edgeThreshold THEN {}
    ELSE {edgeThreshold, new_dim - edgeThreshold - 1}

\* Lines 300-303: kp.pt / actual_scale, as a fraction.
original_coordinate(c, a) == <<c * a[2], a[1]>>

ExtractInputs == IF lastOp.op = "none" THEN ImageDimensions ELSE {}

\* One keypoint of one scale of _extract_enhanced_features.
ExtractKeypoint(w, h, mode, k, x, y) ==
    /\ entry = "extract" /\ lastOp.op = "none"
    /\ k \in 1..Len(scales(w, h, mode))
    /\ x \in KeypointCoordinates(scaled_dim(w, scales(w, h, mode)[k]))
    /\ y \in KeypointCoordinates(scaled_dim(h, scales(w, h, mode)[k]))
    /\ lastOp' = [op |-> "extract",
                  given |-> [w |-> w, h |-> h, screenshot_mode |-> mode,
                             scale |-> scales(w, h, mode)[k],
                             x |-> x, y |-> y],
                  stored |-> actual_scale(w, h, scales(w, h, mode)[k]),
                  value |-> [x |-> original_coordinate(x,
                                       actual_scale(w, h, scales(w, h, mode)[k])),
                             y |-> original_coordinate(y,
                                       actual_scale(w, h, scales(w, h, mode)[k]))]]
    /\ CodecUnchanged

ExtractNext ==
    \E w \in ExtractInputs : \E h \in ImageDimensions : \E mode \in BOOLEAN :
        \E k \in 1..Len(scales(w, h, mode)) :
            \E x \in KeypointCoordinates(scaled_dim(w, scales(w, h, mode)[k])) :
                \E y \in KeypointCoordinates(scaled_dim(h, scales(w, h, mode)[k])) :
                    ExtractKeypoint(w, h, mode, k, x, y)

InitExtract ==
    /\ entry = "extract"
    /\ wiring = "sqlmodel"
    /\ projectExists = TRUE
    /\ imgs = <<>>
    /\ pc = "idle"
    /\ row = NoRow
    /\ result = AnalysisResult
    /\ features = <<>>
    /\ errors = <<>>
    /\ idx = 0
    /\ writes = <<>>
    /\ image_ids = <<>>
    /\ fast_features = <<>>
    /\ featStore = EmptyFeatStore
    /\ metaStore = EmptyMetaStore
    /\ failNext = 0
    /\ cacheFaults = 0
    /\ lastOp = MatrixIdle
    /\ screenshot_mode = FALSE
    /\ computeCalls = <<>>
    /\ runs = 1
    /\ async_redis_client = 0
    /\ threads = NoThreads

SpecExtract == InitExtract /\ [][ExtractNext]_vars

\* ================================================================= claims
Terminal == {"completed", "failed"}
Active == {"processing", "running"}
Ended == pc \in {"done", "raised", "handler_failed"}


\* The run met nothing abnormal in the cache: it was empty for every image of
\* the project when the run started and no cache operation failed.
CacheEmptyAndHealthy ==
    /\ cacheFaults = 0
    /\ \A k \in 1..Len(imgs) : imgs[k].cached = "none"

\* What _run_analysis_task persists for the downloaded images when the cache
\* state is st when the fast-feature phase starts.
UnifiedOutcome(st) ==
    IF Downloaded = <<>>
    THEN [status |-> "failed", similarity |-> NoSimilarity]
    ELSE LET b == batch_compute_fast_features(st, Downloaded)
         IN IF b.raised \/ FastSimilarityRaises(b.feats)
            THEN [status |-> "failed", similarity |-> NoSimilarity]
            ELSE [status |-> "completed",
                  similarity |-> SimilarityCompute(Ids(Downloaded), b.feats)]

\* C1: the persisted status of a run moves only along pending -> processing/
\* running -> completed/failed: every write of completed or failed is preceded
\* by a write of processing or running, and no later write changes the status.
C1_StatusPath ==
    \A k \in 1..Len(writes) :
        writes[k].status \in Terminal =>
            /\ \E j \in 1..(k - 1) : writes[j].status \in Active
            /\ \A m \in (k + 1)..Len(writes) : writes[m].status = writes[k].status

\* C2: every write of the record stores a progress in [0,1] that is greater
\* than or equal to the progress stored before it.
C2_ProgressMonotone ==
    /\ \A k \in 1..Len(writes) :
          Leq(Zero, writes[k].progress) /\ Leq(writes[k].progress, One)
    /\ \A k \in 2..Len(writes) : Leq(writes[k - 1].progress, writes[k].progress)

\* C3: for a project with zero images, starting an analysis is not rejected
\* and the run ends completed with progress 1.0, no similarity result and an
\* empty error list.
C3_ZeroImagesCompleted ==
    (projectExists /\ imgs = <<>> /\ pc \in {"done", "rejected"}) =>
        /\ pc = "done"
        /\ row.exists
        /\ row.status = "completed"
        /\ row.progress = One
        /\ ~row.similarity.present
        /\ row.errors = <<>>
        /\ (entry = "clean" => result.errors = <<>> /\ ~result.similarity.present)

\* The ids of the images of the project whose feature extraction did not
\* fail, in project order.
ObtainedIds == SelectSeq(Ids(imgs), LAMBDA i : i \notin Range(errors))

\* C4: the matrix execute returns is labelled with exactly the ids of the
\* images whose features were obtained, in project order, and row k of the
\* matrix is the feature of image_ids[k].
C4_MatrixIdsAligned ==
    (entry = "clean" /\ pc = "done" /\ result.similarity.present) =>
        /\ result.similarity.image_ids = ObtainedIds
        /\ Len(result.similarity.rows) = Len(result.similarity.image_ids)
        /\ \A k \in 1..Len(result.similarity.rows) :
              result.similarity.rows[k] = result.similarity.image_ids[k]

\* C5: over a non-empty project each image whose extraction raises adds
\* exactly one entry to the error list and is left out of the matrix; the run
\* ends completed if at least one feature was obtained and failed, with
\* error_message no_features_generated and no similarity, only if none was.
C5_PerImageFailureRecorded ==
    (entry = "clean" /\ pc = "done" /\ imgs # <<>>) =>
        /\ result.errors = errors
        /\ Len(errors) + Len(features) = Len(imgs)
        /\ \A j, k \in 1..Len(errors) : errors[j] = errors[k] => j = k
        /\ \A k \in 1..Len(errors) : imgs[errors[k]].corrupt
        /\ \A k \in 1..Len(errors) :
              /\ errors[k] \notin Range(result.similarity.image_ids)
              /\ errors[k] \notin Range(result.similarity.rows)
        /\ features # <<>> =>
              result.status = "completed" /\ result.similarity.present
        /\ features = <<>> =>
              /\ result.status = "failed"
              /\ result.error_message = "no_features_generated"
              /\ ~result.similarity.present

\* C6: in _run_analysis_task, when a downloaded image is corrupt and another
\* downloaded image is valid, the run ends completed with a similarity result
\* (stated for runs that meet nothing abnormal in the cache, so that the
\* corrupt file is the only fault of the run).
C6_CorruptImageConfined ==
    (/\ entry = "unified" /\ pc = "done"
     /\ CacheEmptyAndHealthy
     /\ \E k \in 1..Len(Downloaded) : Downloaded[k].corrupt
     /\ \E k \in 1..Len(Downloaded) : ~Downloaded[k].corrupt) =>
        row.status = "completed" /\ row.similarity.present

\* C7: in _run_analysis_task the run ends failed, with a non-empty
\* error_message, exactly when no image could be downloaded (stated for runs
\* that meet nothing abnormal in the cache).
C7_FailedIffNothingDownloaded ==
    (entry = "unified" /\ pc = "done" /\ CacheEmptyAndHealthy) =>
        /\ (row.status = "failed") <=> (Downloaded = <<>>)
        /\ row.status = "failed" => row.error_message # ""
        /\ Downloaded # <<>> => row.status = "completed"

\* C8: a run in which a cache read or write failed (connection error or a
\* payload that cannot be deserialized) ends with the status and the
\* similarity result of the same run over an empty cache.  Stated for runs
\* whose cache held no readable entry, so that "treated as a miss" is the run
\* over the empty cache.
C8_CacheFailureIsMiss ==
    (/\ entry = "unified" /\ pc = "done"
     /\ cacheFaults > 0
     /\ \A k \in 1..Len(imgs) : imgs[k].cached # "pickle") =>
        LET expected == UnifiedOutcome(CacheState(EmptyFeatStore, EmptyMetaStore, 0, 0))
        IN /\ row.status = expected.status
           /\ row.similarity = expected.similarity

\* C9: once the run record exists, a run that has ended has left the record
\* completed or failed (failed with an error message), and no exception has
\* left the run.
C9_EndedRunIsTerminal ==
    (row.exists /\ Ended) =>
        /\ pc # "raised"
        /\ row.status \in Terminal
        /\ row.status = "failed" => row.error_message # ""

\* C10: a cache get or set that meets a single transient connection error
\* reconnects and attempts the operation again, so the get returns the stored
\* value and the set succeeds.
C10_RetryAfterConnectionError ==
    (lastOp.failAtCall = 1) =>
        /\ (lastOp.op = "get" /\ lastOp.stored.fmt = "pickle") =>
              lastOp.ok /\ lastOp.value = lastOp.stored.src
        /\ lastOp.op = "set" => lastOp.ok

C12_InvalidateRemovesAllKinds ==
    (lastOp.op = "invalidate" /\ lastOp.ok) =>
        \A kind \in Kinds :
            LET g == get_image_features(CacheNow, lastOp.id, kind)
            IN ~g.raised /\ g.src = 0

C19_CacheEntryRecordsMode ==
    [][\A i \in ImageIds :
          featStore'[<<i, "fast">>] # featStore[<<i, "fast">>] =>
              /\ featStore'[<<i, "fast">>].fmt = OwnFormat
              /\ featStore'[<<i, "fast">>].src = i
              /\ featStore'[<<i, "fast">>].screenshot_mode = screenshot_mode]_vars

\* C19 witness: a run with screenshot_mode = TRUE over an image that was not
\* cached has computed its feature and written the cache entry.
C19_Witness ==
    /\ screenshot_mode
    /\ Len(imgs) >= 1 /\ imgs[1].cached = "none"
    /\ \E k \in 1..Len(computeCalls) :
          /\ computeCalls[k].run = runs /\ computeCalls[k].id = 1
          /\ computeCalls[k].stored /\ ~computeCalls[k].held
    /\ featStore[<<1, "fast">>].fmt = OwnFormat
    /\ featStore[<<1, "fast">>].screenshot_mode

MatrixDone == entry = "matrix" /\ lastOp.op # "none"

MatrixProduced == MatrixDone /\ ~lastOp.value.raised

\* C14: every similarity matrix produced (SimpleSimilarity.compute, and the
\* local, fast and final fused matrices of _run_analysis_task) is symmetric:
\* scores[i][j] equals scores[j][i] for all i, j.
C14_MatricesSymmetric ==
    MatrixProduced =>
        \A i, j \in 1..Len(lastOp.given) :
            IF lastOp.op = "simple"
            THEN SamePairScore(lastOp.value.scores[i][j],
                               lastOp.value.scores[j][i])
            ELSE /\ lastOp.value.orb[i][j] = lastOp.value.orb[j][i]
                 /\ SameFast(lastOp.value.fast[i][j], lastOp.value.fast[j][i])
                 /\ SameFinal(lastOp.value.final[i][j],
                              lastOp.value.final[j][i])

\* The unified matrices of two different images whose colours are neither
\* equal nor orthogonal and whose ORB score is in the middle tier.
C14_Witness ==
    /\ MatrixProduced
    /\ lastOp.op = "unified"
    /\ lastOp.given[1] # lastOp.given[2]
    /\ lastOp.value.orb[1][2] = 11
    /\ lastOp.value.fast[1][2].colour[1] > 0
    /\ ~SameFraction(lastOp.value.fast[1][2].colour, One)
    /\ lastOp.value.fast[1][2].hash[1] > 0

\* C15: every similarity matrix produced has diagonal 1.0, for every feature
\* value an image can have, including features loaded from a cache entry and
\* images whose mean colour is all zero.
C15_DiagonalOne ==
    MatrixProduced =>
        \A i \in 1..Len(lastOp.given) :
            IF lastOp.op = "simple"
            THEN PairScoreIsOne(lastOp.value.scores[i][i])
            ELSE /\ lastOp.value.orb[i][i] = 100
                 /\ FastIsOne(lastOp.value.fast[i][i])
                 /\ FinalIsOne(lastOp.value.final[i][i])

\* C16: comparing two perceptual hashes of different bit length is an error:
\* no similarity score is produced for a pair of images whose hash
\* bit-vectors have different lengths.
C16_HashLengthMismatchIsError ==
    (MatrixDone /\ Len(lastOp.given[1].ahash) # Len(lastOp.given[2].ahash))
        => lastOp.value.raised

\* C17: StartAnalysisUseCase.execute for a project id that does not exist
\* raises project_not_found (HTTP 404 on the clean route) and leaves the
\* analysis repository and the feature cache unchanged: no run record is
\* created.
C17_ProjectNotFoundLeavesNoTrace ==
    (entry = "clean" /\ ~projectExists /\ pc # "idle") =>
        /\ pc = "project_not_found"
        /\ clean_route_status(pc) = 404
        /\ row = NoRow
        /\ writes = <<>>
        /\ featStore = StoreOf(imgs)
        /\ metaStore = MetaOf(imgs)

\* A request for a missing project has been answered while the cache holds
\* an entry.
C17_Witness ==
    /\ entry = "clean" /\ ~projectExists /\ pc = "project_not_found"
    /\ \E k \in ImageIds \X Kinds : featStore[k] # NoPayload

\* C18: when two analysis runs execute concurrently in separate threads
\* sharing the process-wide feature cache, the forced reconnect that one run
\* performs at its start and at its end never makes a cache operation of the
\* other run fail, and never makes the other run end failed.
C18_ReconnectHarmlessToOtherRun ==
    entry = "threads" =>
        \A t \in ThreadIds :
            ~threads[t].cache_failed /\ threads[t].status # "failed"

\* C20: in _orb_pairwise_analysis, for every pair of images (i, j) with known
\* non-zero dimensions whose area ratio exceeds 1.3 or whose larger
\* width/height ratio exceeds 1.5, both i and j are in screenshot mode for
\* local-feature extraction and for the matching of every pair they take part
\* in during that run, even if neither was classified as a screenshot on its
\* own.
C20_MismatchForcesScreenshotMode ==
    (entry = "orb" /\ lastOp.op = "orb") =>
        \A i, j \in 1..Len(lastOp.given) :
            LET si == lastOp.given[i].size
                sj == lastOp.given[j].size
                exceeds(a, b, num, den) ==
                    (den * a > num * b) \/ (den * b > num * a)
            IN (/\ i < j
                /\ si[1] > 0 /\ si[2] > 0 /\ sj[1] > 0 /\ sj[2] > 0
                /\ \/ exceeds(si[1] * si[2], sj[1] * sj[2], 13, 10)
                   \/ exceeds(si[1], sj[1], 3, 2)
                   \/ exceeds(si[2], sj[2], 3, 2))
               => \A k \in {i, j} :
                     /\ lastOp.value.extraction[k].done
                            => lastOp.value.extraction[k].screenshot_mode
                     /\ \A p \in PairKeys(Len(lastOp.given)) :
                            (k \in {p[1], p[2]} /\ lastOp.value.matching[p].matched)
                                => /\ lastOp.value.matching[p].is_screenshot_pair
                                   /\ lastOp.value.matching[p].filter_screenshot_mode

\* Three readable images, none classified as a screenshot on its own: the
\* first two differ in area by 1.6, the third differs from neither by more
\* than 1.3 and is matched with both.
C20_Witness ==
    /\ entry = "orb" /\ lastOp.op = "orb"
    /\ Len(lastOp.given) = 3
    /\ \A k \in 1..3 : lastOp.given[k].readable /\ ~lastOp.given[k].detected
    /\ lastOp.given[1].size = <<10, 10>>
    /\ lastOp.given[2].size = <<16, 10>>
    /\ lastOp.given[3].size = <<13, 10>>
    /\ lastOp.value.extraction[1].screenshot_mode
    /\ lastOp.value.extraction[2].screenshot_mode
    /\ ~lastOp.value.extraction[3].screenshot_mode
    /\ lastOp.value.matching[<<2, 3>>].is_screenshot_pair

Occurrences(s, x) == Cardinality({k \in 1..Len(s) : s[k] = x})

\* C21: the adaptive match filter returns a subset of the ratio-test survivors
\* that contains at least min(floor, number of survivors) candidates, where
\* floor is 10 in normal mode and 3 in screenshot mode, for every distribution
\* of candidate distances.
C21_FilterKeepsFloor ==
    (entry = "filter" /\ lastOp.op = "filter") =>
        LET floor == IF lastOp.given.screenshot_mode THEN 3 ELSE 10
        IN /\ \A k \in 1..Len(DistanceValues) :
                  Occurrences(lastOp.value, DistanceValues[k])
                      <= Occurrences(lastOp.given.matches, DistanceValues[k])
           /\ Len(lastOp.value) >= Min2(floor, Len(lastOp.given.matches))

\* C22: in normal mode the fraction of threshold-passing candidates that the
\* pairwise matcher retains is 0.3 x the pair's image-size factor, clamped to
\* between 20% and 50%, so the number retained depends on the sizes of the two
\* images.
C22_KeepRatioScaledBySize ==
    (/\ entry = "filter" /\ lastOp.op = "filter"
     /\ ~lastOp.given.screenshot_mode
     /\ Len(lastOp.given.matches) >= 10) =>
        LET f == lastOp.given.image_size_factor
            pct == IF 3 * f < 20 THEN 20 ELSE IF 3 * f > 50 THEN 50 ELSE 3 * f
            portion == (lastOp.stored.passing * pct) \div 100
            wanted == IF portion < 10 THEN 10 ELSE portion
        IN lastOp.stored.kept
               = IF wanted < lastOp.stored.passing THEN wanted
                 ELSE lastOp.stored.passing

PairDone == entry = "pair" /\ lastOp.op = "pair"

\* Homography estimation succeeded with at least the minimum inlier count: 2
\* for screenshot or crop pairs, 3 otherwise.
EstimationSucceeded ==
    /\ lastOp.given.homography.kind = "found"
    /\ Cardinality(lastOp.given.homography.inliers)
           >= IF lastOp.given.is_screenshot_pair \/ lastOp.given.is_crop_pair
              THEN 2 ELSE 3

\* The score of the pair before geometric verification.
UnverifiedScore ==
    IF lastOp.given.is_screenshot_pair /\ lastOp.given.count >= 3
    THEN bonus(lastOp.given.plain, lastOp.given.count)
    ELSE lastOp.given.plain

\* C23: a PairwiseRegion carries a projected quad and bounding box, and an
\* inlier_count above zero, only when homography estimation succeeded with at
\* least the minimum inlier count; in that case its reported matches are
\* exactly the inlier matches and inlier_count <= match_count.  In every other
\* case quad and bbox are null, inlier_count is 0 and the reported matches are
\* the full filtered match set.
C23_RegionGeometryOnlyWhenVerified ==
    (PairDone /\ lastOp.value.region.present) =>
        LET region == lastOp.value.region
        IN IF EstimationSucceeded
           THEN /\ region.matches = lastOp.given.homography.inliers
                /\ region.inlier_count = Cardinality(region.matches)
                /\ region.inlier_count > 0
                /\ region.inlier_count <= region.match_count
           ELSE /\ ~region.quad_in_target
                /\ ~region.bbox_in_target
                /\ region.inlier_count = 0
                /\ region.matches = 1..lastOp.given.count

\* A normal pair with five matches, three of them inliers, and its quad; the
\* same pair with two inliers is among the states of the other branch.
C23_Witness ==
    /\ PairDone
    /\ ~lastOp.given.is_screenshot_pair /\ ~lastOp.given.is_crop_pair
    /\ lastOp.given.count = 5
    /\ lastOp.value.region.inlier_count = 3
    /\ lastOp.value.region.quad_in_target
    /\ lastOp.value.region.matches = {1, 3, 5}

\* C24: for a pair whose geometric verification fails, the pair's
\* local-feature score is the unverified score multiplied by 0.7 (screenshot
\* pair), 0.8 (crop pair) or 0.5 (otherwise), and this discounted value is the
\* one reported both in the pair's PairwiseRegion and in the local similarity
\* matrix entry that feeds the final fusion.
C24_FallbackDiscountEverywhere ==
    (PairDone /\ lastOp.value.region.present /\ ~EstimationSucceeded) =>
        LET discounted ==
                IF lastOp.given.is_screenshot_pair THEN (UnverifiedScore * 7) \div 10
                ELSE IF lastOp.given.is_crop_pair THEN (UnverifiedScore * 8) \div 10
                ELSE (UnverifiedScore * 5) \div 10
        IN /\ lastOp.value.region.score = discounted
           /\ lastOp.value.sim = discounted

\* C25: for every pair in screenshot mode with match_count >= 3, the pair's
\* local score is the enhanced-similarity score multiplied by
\* 1 + (match_count - 3) x 0.08 and clamped to 1.0, whether or not the pair
\* then passes geometric verification.
C25_ScreenshotBonusAlways ==
    (PairDone /\ lastOp.given.is_screenshot_pair /\ lastOp.given.count >= 3) =>
        LET base == IF EstimationSucceeded THEN lastOp.given.enhanced
                    ELSE lastOp.given.plain
        IN lastOp.value.sim
               = IF base * (100 + (lastOp.given.count - 3) * 8) > 100 * ScoreOne
                 THEN ScoreOne
                 ELSE (base * (100 + (lastOp.given.count - 3) * 8)) \div 100

\* C26: the final score of every pair is a blend of its fast score and its
\* local score chosen by the local score's tier: 0.7 x local + 0.3 x fast when
\* local > 0.3, 0.5 x local + 0.5 x fast when 0.1 < local <= 0.3, and
\* 0.3 x local + 0.7 x fast otherwise; with both inputs in [0,1] the result is
\* in [0,1].
C26_FusionTiers ==
    (entry = "fusion" /\ lastOp.op = "fuse") =>
        LET local == lastOp.given.orb_score
            fast == lastOp.given.fast_score
        IN /\ lastOp.value
                  = IF local > 30 THEN 7 * local + 3 * fast
                    ELSE IF local > 10 THEN 5 * local + 5 * fast
                    ELSE 3 * local + 7 * fast
           /\ lastOp.value >= 0
           /\ lastOp.value <= 1000

\* A pair just above the upper tier boundary, with a fast score of 1.0.
C26_Witness ==
    /\ entry = "fusion" /\ lastOp.op = "fuse"
    /\ lastOp.given.orb_score = 31
    /\ lastOp.given.fast_score = 100
    /\ lastOp.value = 517

\* C27: every keypoint of a LocalFeatureSet, after being mapped back from any
\* scale of the scale set, lies inside the original image's coordinate range
\* (0 <= x <= width, 0 <= y <= height), including at scales where the
\* 32-pixel minimum-size clamp changed the width and the height by different
\* factors.
C27_KeypointsInsideImage ==
    (entry = "extract" /\ lastOp.op = "extract") =>
        /\ lastOp.value.x[1] >= 0
        /\ lastOp.value.x[1] <= lastOp.given.w * lastOp.value.x[2]
        /\ lastOp.value.y[1] >= 0
        /\ lastOp.value.y[1] <= lastOp.given.h * lastOp.value.y[2]

\* C28: the counters get_cache_stats returns count the events they name:
\* cache_hits + cache_misses is the number of lookups that completed (one per
\* get, one per id of a batch get), cache_invalidations the number of
\* successful invalidations, cache_errors the number of cache operations that
\* ended in an error, and hit_rate is hits / (hits + misses) (to the four
\* places the code rounds to), 0 without lookups.
C28_StatsCountEvents ==
    (entry = "stats" /\ lastOp.op = "stats" /\ ~lastOp.returned.empty) =>
        LET r == lastOp.returned
            total == r.cache_hits + r.cache_misses
            diff == r.hit_rate * total - r.cache_hits * 10000
        IN /\ total = lastOp.lookups
           /\ r.cache_invalidations = lastOp.invalidated
           /\ r.cache_errors = lastOp.failed
           /\ IF total = 0 THEN r.hit_rate = 0
              ELSE 2 * diff <= total /\ -2 * diff <= total

\* C29: _batch_compute_fast_features returns, at every index i, the fast
\* feature of image_ids[i], for every combination of cached and uncached
\* images, also when an uncached image comes before a cached one.
C29_BatchFeaturesAligned ==
    (entry = "batch" /\ pc = "batch_returned") =>
        /\ Len(fast_features) = Len(image_ids)
        /\ \A k \in 1..Len(image_ids) : fast_features[k] = image_ids[k]

\* C30: in _run_analysis_task every analysed image id is paired with a
\* temporary file that holds that image's own bytes, so row i of the
\* matrices describes image i, also when two images share a filename.
C30_TempFileHoldsOwnImage ==
    (entry = "download" /\ pc = "analysed") =>
        /\ Len(lastOp.read) = Len(image_ids)
        /\ \A k \in 1..Len(image_ids) : lastOp.read[k] = image_ids[k]

====
